---- MODULE Spec2Model ----
(***************************************************************************)
(* Verification model of the research-report pipeline of                   *)
(* Netizine/researcher.                                                    *)
(*                                                                         *)
(* Part 1 (SpecResearch): ResearchSkill._get_context_by_web_search, its    *)
(* asyncio.gather fan-out over sub-queries, and the URL de-duplication of  *)
(* ResearchSkill._get_new_urls, at the granularity of the coroutine        *)
(* suspension points that matter for the shared visited-URL set.           *)
(***************************************************************************)
EXTENDS Integers, Sequences, FiniteSets, TLC

\* ------------------------------------------------------------------ bounds
MaxBatch == 2      \* length of the URL list one search hands to _get_new_urls

\* the URL strings the retrievers can return
Urls == {"a.com", "b.com"}
Batches == UNION {[1..n -> Urls] : n \in 0..MaxBatch}

\* the original query and the sub-queries the planner can derive from it
Query == "q0"
Outlines == {<<>>, <<"q0">>, <<"q1">>}

\* one gathered task per entry of sub_queries: the outline's, then the query's
Tasks == {1, 2}

VARIABLES
    \* --- shared research state
    verbose,         \* researcher.verbose
    report_type,     \* researcher.report_type
    scraped_given,   \* TRUE iff the caller passed a non-empty scraped_data
    visited_urls,    \* researcher.visited_urls
    researcher_logs, \* state["researcher_logs"]
    \* --- _get_context_by_web_search (the awaiting caller)
    cpc,             \* position of the caller
    sub_queries,     \* the list handed to asyncio.gather
    gather_exc,      \* first exception a gathered task raised
    cresult,         \* what the call returned or raised
    \* --- one task per sub-query (_process_sub_query)
    tpc,             \* position of each task
    turls,           \* url_set_input of the task's _get_new_urls call
    tidx,            \* loop index inside _get_new_urls
    tnew,            \* new_urls inside _get_new_urls
    tout,            \* the task's result or exception
    \* --- history
    tentry,          \* visited_urls when the task's _get_new_urls call began
    tinter,          \* another task ran while this task was inside _get_new_urls
    accepted         \* how often each URL was put into some call's new_urls

researchVars == <<verbose, report_type, scraped_given, visited_urls, researcher_logs,
                  cpc, sub_queries, gather_exc, cresult,
                  tpc, turls, tidx, tnew, tout, tentry, tinter, accepted>>

\* --- the review-revise workflow (EditorAgent._create_workflow)
VARIABLES
    follow_guidelines, \* task["follow_guidelines"]
    reviewer_stub,     \* "any": the model answers freely; "always": it never accepts
    draft_state,       \* the DraftState the workflow's nodes read and update
    wnode,             \* the node the workflow is at
    wstatus,           \* "running", "ended" or "raised"
    research_logs,     \* state["research_logs"]
    n_reviews,         \* reviewer node executions
    n_model_reviews,   \* model calls made by the reviewer
    n_feedback,        \* reviews that returned non-empty feedback
    n_revisions,       \* reviser node executions
    first_draft,       \* the draft the researcher node produced
    reviewed,          \* the draft the last review evaluated
    revise_prompt,     \* the draft and feedback of the last revision prompt
    revised            \* the draft the last revision produced

reviewVars == <<follow_guidelines, reviewer_stub, draft_state, wnode, wstatus,
                research_logs, n_reviews, n_model_reviews, n_feedback, n_revisions,
                first_draft, reviewed, revise_prompt, revised>>

\* --- generate_report
VARIABLES
    g_state,         \* TRUE iff generate_report was given a state
    g_role,          \* agent_role_prompt
    g_content,       \* the prompt text built from the report type
    gpc,             \* position inside generate_report
    g_calls,         \* the message lists handed to the Model Invoker, in order
    g_outcomes,      \* one record per call: whether it returned, and its text
    g_report,        \* the local variable report
    g_result,        \* what generate_report returned or raised
    writer_logs      \* state["writer_logs"]

reportVars == <<g_state, g_role, g_content, gpc, g_calls, g_outcomes, g_report,
                g_result, writer_logs>>

\* --- SourceCurator.curate_sources
VARIABLES
    cu_sources,      \* source_data
    cu_max,          \* max_results
    cu_pc,           \* position inside curate_sources
    cu_outcome,      \* what the model call did: its output, or the error it raised
    cu_logs,         \* the curator's state["research_logs"]
    cu_curated,      \* the curator's state["curated_sources"]
    cu_result        \* what curate_sources returned or raised

curateVars == <<cu_sources, cu_max, cu_pc, cu_outcome, cu_logs, cu_curated, cu_result>>

\* --- the cost ledger (GPTResearcher.add_costs)
VARIABLES
    costs_set,       \* TRUE iff the state has the key "costs"
    costs,           \* state["costs"]
    log_handler,     \* state["log_handler"]: "absent", "none" or "set"
    lg_n,            \* add_costs calls made so far
    lg_sum,          \* history: the sum of the amounts add_costs accepted
    lg_neg,          \* history: add_costs accepted a negative amount
    lg_last          \* the last call: its amount and how it ended

ledgerVars == <<costs_set, costs, log_handler, lg_n, lg_sum, lg_neg, lg_last>>

\* --- ResearchSkill.conduct_research and its own visited set
VARIABLES
    rs_present,      \* TRUE iff state["research_state"] holds its keys
    rs_visited,      \* state["research_state"]["visited_urls"]
    rs_results,      \* the URLs of search_results
    rs_idx           \* loop index inside _process_search_results

conductVars == <<rs_present, rs_visited, rs_results, rs_idx>>

\* --- BrowserSkill.select_top_images
VARIABLES
    im_images,       \* the candidate list: records with url and score
    im_k,            \* k
    im_hash,         \* what get_image_hash returns for each URL
    im_current,      \* the URLs in state["research_images"] before the call
    im_pc,           \* "idle" or "done"
    im_selected      \* the list select_top_images returned

imageVars == <<im_images, im_k, im_hash, im_current, im_pc, im_selected>>

\* --- BrowserSkill.browse_urls
VARIABLES
    research_sources, \* state["research_sources"]
    research_images,  \* state["research_images"]
    browse_logs,      \* the events browse_urls appended to state["research_logs"]
    bpc,              \* position of each browse_urls call
    bdocs,            \* scraped_content of each call
    bimgs,            \* images of each call
    br_n,             \* browse_urls calls started so far
    br_returned,      \* history: the documents completed calls returned
    br_selected       \* history: the images completed calls selected

browseVars == <<research_sources, research_images, browse_logs, bpc, bdocs, bimgs,
                br_n, br_returned, br_selected>>

\* --- ContextManagerSkill.get_similar_written_contents_by_draft_section_titles
VARIABLES
    cx_pc,        \* position of the call
    cx_queries,   \* all_queries
    cx_written,   \* written_contents
    cx_max,       \* max_results
    cx_sim,       \* similarity of each fragment text to each query (tenths)
    cx_task,      \* position of each process_query task
    cx_results,   \* what each process_query task returned (a set of texts)
    cx_out,       \* the list the call returned
    cx_logs       \* the events the call appended to state["research_logs"]

contextVars == <<cx_pc, cx_queries, cx_written, cx_max, cx_sim, cx_task, cx_results,
                 cx_out, cx_logs>>

\* --- ResearchSkill.plan_research and the fan-out of its sub-queries
VARIABLES
    pl_path,         \* "web": _get_context_by_web_search, "vectorstore": _get_context_by_vectorstore
    pl_report_type,  \* researcher.report_type
    pl_verbose,      \* researcher.verbose
    pl_pc,           \* position of the research call
    pl_outline,      \* what plan_research returned
    pl_branches,     \* the sub-query of each coroutine handed to asyncio.gather
    pl_started,      \* the branches that have begun to run
    pl_model_calls,  \* plan_research_outline calls made
    pl_logs,         \* the events appended to state["researcher_logs"]
    pl_result        \* the exception the research call raised

planVars == <<pl_path, pl_report_type, pl_verbose, pl_pc, pl_outline, pl_branches,
              pl_started, pl_model_calls, pl_logs, pl_result>>

\* --- _log_event called by concurrent branches, and the event sink
VARIABLES
    ev_now,      \* the wall clock datetime.now() reads
    ev_log,      \* the list _log_event appends to
    ev_pc,       \* position of each branch
    ev_count,    \* events each branch has logged
    ev_entered,  \* the clock when the branch began its current step
    ev_pending   \* log indices handed to the sink whose emit call has not returned

eventsVars == <<ev_now, ev_log, ev_pc, ev_count, ev_entered, ev_pending>>

\* --- ChiefEditorAgent.run
VARIABLES
    ch_pc,          \* position of run
    ch_log,         \* state["research_logs"]
    ch_topics,      \* topics the research stage still has to research in depth
    ch_started,     \* the stages run has started, in order
    ch_at_failure,  \* history: the log when a stage failed
    ch_result       \* what run returned or raised

chiefVars == <<ch_pc, ch_log, ch_topics, ch_started, ch_at_failure, ch_result>>

\* --- call_model and _call_model_impl (the Model Invoker)
VARIABLES
    mi_pc,        \* position of the call
    mi_state,     \* the state argument: "none", "logs_only" (no llm_logs key) or "full"
    mi_callback,  \* TRUE iff a cost_callback was passed
    mi_calls,     \* call_model calls started
    mi_logs,      \* state["research_logs"] of the state passed
    mi_llm_logs,  \* state["llm_logs"] of the state passed
    mi_mark,      \* history: length of mi_logs when the current call began
    mi_attempts,  \* provider.get_chat_response calls of the current call
    mi_costs,     \* cost estimates handed to cost_callback, all calls
    mi_result,    \* what the current call returned or raised
    mi_args,      \* history: the model and max_tokens of the current call
    mi_responses, \* history: provider responses received, all calls
    mi_returned   \* history: calls that returned a response

invokeVars == <<mi_pc, mi_state, mi_callback, mi_calls, mi_logs, mi_llm_logs, mi_mark,
                mi_attempts, mi_costs, mi_result,
               mi_args, mi_responses, mi_returned>>

\* --- the provider registries: from_provider and get_retrievers
VARIABLES
    rg_pc,          \* "start", "retrievers" (get_retrievers returned) or "llm"
    rg_headers,     \* the headers argument of get_retrievers
    rg_cfg,         \* the retriever fields of the cfg argument
    rg_retrievers,  \* what get_retrievers returned
    rg_provider,    \* the provider argument of from_provider
    rg_llm          \* what from_provider returned or raised

registryVars == <<rg_pc, rg_headers, rg_cfg, rg_retrievers, rg_provider, rg_llm>>

vars == <<researchVars, reviewVars, reportVars, curateVars, ledgerVars, conductVars,
          imageVars, browseVars, contextVars, planVars, eventsVars, chiefVars,
          invokeVars, registryVars>>
notResearch == <<reviewVars, reportVars, curateVars, ledgerVars, conductVars,
                 imageVars, browseVars, contextVars, planVars, eventsVars, chiefVars,
                 invokeVars, registryVars>>
notReview == <<researchVars, reportVars, curateVars, ledgerVars, conductVars,
               imageVars, browseVars, contextVars, planVars, eventsVars, chiefVars,
               invokeVars, registryVars>>
notReport == <<researchVars, reviewVars, curateVars, ledgerVars, conductVars,
               imageVars, browseVars, contextVars, planVars, eventsVars, chiefVars,
               invokeVars, registryVars>>
notCurate == <<researchVars, reviewVars, reportVars, ledgerVars, conductVars,
               imageVars, browseVars, contextVars, planVars, eventsVars, chiefVars,
               invokeVars, registryVars>>
notLedger == <<researchVars, reviewVars, reportVars, curateVars, conductVars,
               imageVars, browseVars, contextVars, planVars, eventsVars, chiefVars,
               invokeVars, registryVars>>
notWebSearch == <<reviewVars, reportVars, curateVars, ledgerVars, imageVars,
                  browseVars, contextVars, planVars, eventsVars, chiefVars, invokeVars,
                  registryVars>>
notImages == <<researchVars, reviewVars, reportVars, curateVars, ledgerVars,
               conductVars, browseVars, contextVars, planVars, eventsVars, chiefVars,
               invokeVars, registryVars>>
notBrowse == <<researchVars, reviewVars, reportVars, curateVars, ledgerVars,
               conductVars, imageVars, contextVars, planVars, eventsVars, chiefVars,
               invokeVars, registryVars>>
notContext == <<researchVars, reviewVars, reportVars, curateVars, ledgerVars,
                conductVars, imageVars, browseVars, planVars, eventsVars, chiefVars,
                invokeVars, registryVars>>
notPlan == <<researchVars, reviewVars, reportVars, curateVars, ledgerVars, conductVars,
             imageVars, browseVars, contextVars, eventsVars, chiefVars, invokeVars,
             registryVars>>
notEvents == <<researchVars, reviewVars, reportVars, curateVars, ledgerVars,
               conductVars, imageVars, browseVars, contextVars, planVars, chiefVars,
               invokeVars, registryVars>>
notChief == <<researchVars, reviewVars, reportVars, curateVars, ledgerVars,
              conductVars, imageVars, browseVars, contextVars, planVars, eventsVars,
              invokeVars, registryVars>>
notInvoke == <<researchVars, reviewVars, reportVars, curateVars, ledgerVars,
               conductVars, imageVars, browseVars, contextVars, planVars, eventsVars,
               chiefVars, registryVars>>
notRegistry == <<researchVars, reviewVars, reportVars, curateVars, ledgerVars,
                 conductVars, imageVars, browseVars, contextVars, planVars, eventsVars,
                 chiefVars, invokeVars>>

\* ------------------------------------------------------------------ helpers
SeqToSet(s) == {s[i] : i \in DOMAIN s}

\* _log_event: the record appended to state["researcher_logs"]
LogRecord(message, done, error) ==
    [message |-> message, done |-> done, error |-> error, timestamp |-> "now"]

RECURSIVE AppendAll(_, _)
AppendAll(log, evs) ==
    IF evs = <<>> THEN log ELSE AppendAll(Append(log, Head(evs)), Tail(evs))

NoResult == [kind |-> "none"]
Content(c) == [kind |-> "content", val |-> c]
Raised(where, t) == [kind |-> "exception", stage |-> where, task |-> t]
NoExc == [kind |-> "none"]
EmptyList == [kind |-> "list"]

\* `url not in self.researcher.visited_urls`
IsNewUrlNoCheck(url, vis) == TRUE

IsNewUrl(url, vis) == url \notin vis

\* `self.researcher.visited_urls.add(url)`
MarkVisitedForgets(vis, url) == vis

MarkVisitedResets(vis, url) == {url}

MarkVisited(vis, url) == vis \cup {url}

\* The for-loop of _get_new_urls from index i up to its next suspension point:
\* the `await stream_output(...)` after an accepted URL when verbose, else the
\* end of the loop.
RECURSIVE RunLoop(_, _, _, _, _)
RunLoop(B, i, vis, new, verb) ==
    IF i > Len(B)
    THEN [idx |-> i, visited |-> vis, new_urls |-> new, suspended |-> FALSE]
    ELSE IF IsNewUrl(B[i], vis)
         THEN IF verb
              THEN [idx |-> i + 1, visited |-> MarkVisited(vis, B[i]),
                    new_urls |-> Append(new, B[i]), suspended |-> TRUE]
              ELSE RunLoop(B, i + 1, MarkVisited(vis, B[i]), Append(new, B[i]), verb)
         ELSE RunLoop(B, i + 1, vis, new, verb)

\* how often u occurs in the list s
Occurrences(u, s) == Cardinality({i \in DOMAIN s : s[i] = u})

\* the history counter saturates at 2
Min2(n) == IF n > 2 THEN 2 ELSE n

\* tasks that are currently inside _get_new_urls
InDedup(t) == tpc[t] \in {"gnu_loop", "gnu_ret"}

\* every other task inside _get_new_urls has now been interleaved with
Interleave(t) == [u \in Tasks |-> IF u # t /\ InDedup(u) THEN TRUE ELSE tinter[u]]

\* ------------------------------------------------------------------ Init
InitResearch ==
    /\ verbose \in BOOLEAN
    /\ report_type \in {"research_report", "subtopic_report"}
    /\ scraped_given \in BOOLEAN
    /\ visited_urls \in SUBSET Urls
    /\ researcher_logs = <<>>
    /\ cpc = "idle"
    /\ sub_queries = <<>>
    /\ gather_exc = NoExc
    /\ cresult = NoResult
    /\ tpc = [t \in Tasks |-> "unused"]
    /\ turls = [t \in Tasks |-> <<>>]
    /\ tidx = [t \in Tasks |-> 1]
    /\ tnew = [t \in Tasks |-> <<>>]
    /\ tout = [t \in Tasks |-> NoResult]
    /\ tentry = [t \in Tasks |-> {}]
    /\ tinter = [t \in Tasks |-> FALSE]
    /\ accepted = [u \in Urls |-> 0]

\* ------------------------------------------------- _get_context_by_web_search
\* researcher.py 256-258: the entry event
StartWebSearch ==
    /\ cpc = "idle"
    /\ researcher_logs' = Append(researcher_logs,
                                 LogRecord("Starting web search", FALSE, FALSE))
    /\ cpc' = "plan"
    /\ UNCHANGED <<verbose, report_type, scraped_given, visited_urls, sub_queries,
                   gather_exc, cresult, tpc, turls, tidx, tnew, tout, tentry,
                   tinter, accepted>>
    /\ UNCHANGED notResearch

\* a caller that appends the original query whatever the report type
WithOriginalQueryAlways(outline, rtype) == Append(outline, Query)

\* researcher.py 268-269 and 230-231: the original query is appended unless
\* this is a sub-topic report
WithOriginalQuery(outline, rtype) ==
    IF rtype # "subtopic_report" THEN Append(outline, Query) ELSE outline

\* researcher.py 264-288: plan_research returns an outline and gather starts
\* one task per entry of sub_queries
PlanResearch(outline) ==
    /\ cpc = "plan"
    /\ researcher_logs' = AppendAll(researcher_logs,
           << LogRecord("Planning research", FALSE, FALSE),
              LogRecord("Research outline planned", TRUE, FALSE) >>)
    /\ sub_queries' = WithOriginalQuery(outline, report_type)
    /\ tpc' = [t \in Tasks |-> IF t <= Len(sub_queries') THEN "new" ELSE "unused"]
    /\ cpc' = "gather"
    /\ UNCHANGED <<verbose, report_type, scraped_given, visited_urls,
                   gather_exc, cresult, turls, tidx, tnew, tout, tentry,
                   tinter, accepted>>
    /\ UNCHANGED notResearch

\* researcher.py 184-186 and 301-303: the planner's model call raises; no task
\* is started
PlanFails ==
    /\ cpc = "plan"
    /\ researcher_logs' = AppendAll(researcher_logs,
           << LogRecord("Planning research", FALSE, FALSE),
              LogRecord("Error planning research", TRUE, TRUE),
              LogRecord("Error starting web search", TRUE, TRUE) >>)
    /\ cresult' = Raised("plan", 0)
    /\ cpc' = "raised"
    /\ UNCHANGED <<verbose, report_type, scraped_given, visited_urls, sub_queries,
                   gather_exc, tpc, turls, tidx, tnew, tout, tentry,
                   tinter, accepted>>
    /\ UNCHANGED notResearch

\* researcher.py 291-293: the non-empty task results joined with " ", in the
\* order of sub_queries
RECURSIVE JoinContexts(_, _)
JoinContexts(outs, i) ==
    IF i > Len(outs) THEN <<>>
    ELSE LET rest == JoinContexts(outs, i + 1)
         IN IF outs[i] = <<>> THEN rest
            ELSE IF rest = <<>> THEN outs[i]
            ELSE outs[i] \o <<" ">> \o rest

\* the value gather hands back for a finished task
ResultText(r) == IF r.kind = "content" THEN r.val ELSE <<>>

TaskContents == [i \in 1..Len(sub_queries) |-> ResultText(tout[i])]

\* a gather that hands back whatever the tasks have produced so far
GatherReturnsWithoutWaiting ==
    /\ cpc = "gather"
    /\ gather_exc = NoExc
    /\ LET combined == JoinContexts(TaskContents, 1)
       IN /\ cresult' = IF combined # <<>> THEN Content(combined) ELSE EmptyList
          /\ researcher_logs' =
                 IF combined # <<>>
                 THEN Append(researcher_logs,
                             LogRecord("Combined context size", TRUE, FALSE))
                 ELSE researcher_logs
    /\ cpc' = "returned"
    /\ UNCHANGED <<verbose, report_type, scraped_given, visited_urls, sub_queries,
                   gather_exc, tpc, turls, tidx, tnew, tout, tentry,
                   tinter, accepted>>
    /\ UNCHANGED notResearch

\* researcher.py 283-297: every gathered task returned; the joined context is
\* returned, or [] when no task found any
GatherReturns ==
    /\ cpc = "gather"
    /\ gather_exc = NoExc
    /\ \A t \in 1..Len(sub_queries) : tpc[t] \in {"done", "failed"}
    /\ LET combined == JoinContexts(TaskContents, 1)
       IN /\ cresult' = IF combined # <<>> THEN Content(combined) ELSE EmptyList
          /\ researcher_logs' =
                 IF combined # <<>>
                 THEN Append(researcher_logs,
                             LogRecord("Combined context size", TRUE, FALSE))
                 ELSE researcher_logs
    /\ cpc' = "returned"
    /\ UNCHANGED <<verbose, report_type, scraped_given, visited_urls, sub_queries,
                   gather_exc, tpc, turls, tidx, tnew, tout, tentry,
                   tinter, accepted>>
    /\ UNCHANGED notResearch

\* researcher.py 298-303: gather re-raises the first exception of a task; both
\* handlers log it and raise it again. The other tasks are not cancelled.
GatherRaises ==
    /\ cpc = "gather"
    /\ gather_exc # NoExc
    /\ researcher_logs' = AppendAll(researcher_logs,
           << LogRecord("Error during web search", TRUE, TRUE),
              LogRecord("Error starting web search", TRUE, TRUE) >>)
    /\ cresult' = gather_exc
    /\ cpc' = "raised"
    /\ UNCHANGED <<verbose, report_type, scraped_given, visited_urls, sub_queries,
                   gather_exc, tpc, turls, tidx, tnew, tout, tentry,
                   tinter, accepted>>
    /\ UNCHANGED notResearch

\* ----------------------------------------------------------- _process_sub_query
\* researcher.py 305-326, 482, 443: the task starts; with no scraped_data it
\* enters _scrape_data_by_urls and _search_relevant_source_urls
StartSubQuery(t) ==
    /\ tpc[t] = "new"
    /\ researcher_logs' = AppendAll(researcher_logs,
           IF scraped_given
           THEN << LogRecord("Processing sub query", FALSE, FALSE) >>
           ELSE << LogRecord("Processing sub query", FALSE, FALSE),
                   LogRecord("Scraping data by URLs", FALSE, FALSE),
                   LogRecord("Searching for relevant source URLs", FALSE, FALSE) >>)
    /\ tpc' = [tpc EXCEPT ![t] = IF scraped_given THEN "context" ELSE "search"]
    /\ tinter' = Interleave(t)
    /\ UNCHANGED <<verbose, report_type, scraped_given, visited_urls, cpc,
                   sub_queries, gather_exc, cresult, turls, tidx, tnew, tout,
                   tentry, accepted>>
    /\ UNCHANGED notResearch

\* The events the handlers between the failing stage and the task boundary
\* append (researcher.py 469-471, 506-508, 360-365).
ErrorEvents(where) ==
    (IF where = "search"
     THEN << LogRecord("Error searching for relevant source URLs", TRUE, TRUE) >>
     ELSE <<>>)
    \o (IF where \in {"search", "scrape"}
        THEN << LogRecord("Error scraping data by URLs", TRUE, TRUE) >>
        ELSE <<>>)
    \o << LogRecord("Error processing sub query", TRUE, TRUE),
          LogRecord("Error processing sub query", TRUE, TRUE) >>

\* asyncio.gather without return_exceptions (researcher.py 283-288): the
\* first exception raised by a task is the one propagated to the awaiter
FirstExceptionSwallowed(kept, exc) == NoExc

FirstException(kept, exc) == IF kept = NoExc THEN exc ELSE kept

\* A stage of task t raises: the handlers log and re-raise, the task ends with
\* the exception, and gather keeps the first exception for its awaiter.
TaskRaises(t, where) ==
    /\ researcher_logs' = AppendAll(researcher_logs, ErrorEvents(where))
    /\ tout' = [tout EXCEPT ![t] = Raised(where, t)]
    /\ tpc' = [tpc EXCEPT ![t] = "failed"]
    /\ gather_exc' = FirstException(gather_exc, Raised(where, t))
    /\ tinter' = Interleave(t)
    /\ turls' = [turls EXCEPT ![t] = <<>>]
    /\ tidx' = [tidx EXCEPT ![t] = 1]
    /\ tnew' = [tnew EXCEPT ![t] = <<>>]
    /\ UNCHANGED <<verbose, report_type, scraped_given, visited_urls, cpc,
                   sub_queries, cresult, tentry, accepted>>
    /\ UNCHANGED notResearch

\* researcher.py 449-461: the retrievers' results, concatenated
RetrieverSearch(t, B) ==
    /\ tpc[t] = "search"
    /\ turls' = [turls EXCEPT ![t] = B]
    /\ tpc' = [tpc EXCEPT ![t] = "gnu_enter"]
    /\ tinter' = Interleave(t)
    /\ UNCHANGED <<verbose, report_type, scraped_given, visited_urls,
                   researcher_logs, cpc, sub_queries, gather_exc, cresult,
                   tidx, tnew, tout, tentry, accepted>>
    /\ UNCHANGED notResearch

RetrieverFails(t) ==
    /\ tpc[t] = "search"
    /\ TaskRaises(t, "search")

\* researcher.py 413-421: _get_new_urls logs its input and suspends
GetNewUrlsEnter(t) ==
    /\ tpc[t] = "gnu_enter"
    /\ researcher_logs' = Append(researcher_logs,
                                 LogRecord("Getting new URLs", FALSE, FALSE))
    /\ tidx' = [tidx EXCEPT ![t] = 1]
    /\ tnew' = [tnew EXCEPT ![t] = <<>>]
    /\ tentry' = [tentry EXCEPT ![t] = visited_urls]
    /\ tinter' = [Interleave(t) EXCEPT ![t] = FALSE]
    /\ tpc' = [tpc EXCEPT ![t] = "gnu_loop"]
    /\ UNCHANGED <<verbose, report_type, scraped_given, visited_urls, cpc,
                   sub_queries, gather_exc, cresult, turls, tout, accepted>>
    /\ UNCHANGED notResearch

\* researcher.py 422-436: the loop runs to its next suspension point; when it
\* has consumed the whole input it logs the new URLs
GetNewUrlsLoop(t) ==
    /\ tpc[t] = "gnu_loop"
    /\ LET r == RunLoop(turls[t], tidx[t], visited_urls, tnew[t], verbose)
       IN /\ visited_urls' = r.visited
          /\ tidx' = [tidx EXCEPT ![t] = r.idx]
          /\ tnew' = [tnew EXCEPT ![t] = r.new_urls]
          /\ IF r.suspended
             THEN /\ tpc' = tpc
                  /\ researcher_logs' = researcher_logs
             ELSE /\ tpc' = [tpc EXCEPT ![t] = "gnu_ret"]
                  /\ researcher_logs' = Append(researcher_logs,
                                               LogRecord("New URLs", TRUE, FALSE))
          /\ accepted' = [u \in Urls |->
                 Min2(accepted[u] + Occurrences(u, r.new_urls)
                                  - Occurrences(u, tnew[t]))]
    /\ tinter' = Interleave(t)
    /\ UNCHANGED <<verbose, report_type, scraped_given, cpc, sub_queries,
                   gather_exc, cresult, turls, tout, tentry>>
    /\ UNCHANGED notResearch

\* researcher.py 437 and 464-467: _get_new_urls returns new_urls to
\* _search_relevant_source_urls, which shuffles and logs them
GetNewUrlsReturn(t) ==
    /\ tpc[t] = "gnu_ret"
    /\ researcher_logs' = Append(researcher_logs,
                                 LogRecord("Relevant source URLs", TRUE, FALSE))
    /\ tpc' = [tpc EXCEPT ![t] = "browse"]
    /\ tinter' = [Interleave(t) EXCEPT ![t] = FALSE]
    /\ tentry' = [tentry EXCEPT ![t] = {}]
    /\ turls' = [turls EXCEPT ![t] = <<>>]
    /\ tidx' = [tidx EXCEPT ![t] = 1]
    /\ UNCHANGED <<verbose, report_type, scraped_given, visited_urls, cpc,
                   sub_queries, gather_exc, cresult, tnew, tout, accepted>>
    /\ UNCHANGED notResearch

\* researcher.py 497-505: the scraper returns the content of the new URLs
BrowseUrls(t) ==
    /\ tpc[t] = "browse"
    /\ researcher_logs' = Append(researcher_logs,
                                 LogRecord("Scraped data", TRUE, FALSE))
    /\ tpc' = [tpc EXCEPT ![t] = "context"]
    /\ tinter' = Interleave(t)
    /\ tnew' = [tnew EXCEPT ![t] = <<>>]
    /\ UNCHANGED <<verbose, report_type, scraped_given, visited_urls, cpc,
                   sub_queries, gather_exc, cresult, turls, tidx, tout,
                   tentry, accepted>>
    /\ UNCHANGED notResearch

BrowseFails(t) ==
    /\ tpc[t] = "browse"
    /\ TaskRaises(t, "scrape")

\* researcher.py 329-359: the context manager returns the content found for the
\* sub-query (possibly none) and the task returns it
SimilarContent(t, found) ==
    /\ tpc[t] = "context"
    /\ tout' = [tout EXCEPT ![t] =
                   Content(IF found THEN << <<"ctx", t>> >> ELSE <<>>)]
    /\ researcher_logs' = Append(researcher_logs,
                                 LogRecord("Content found for sub query", TRUE, FALSE))
    /\ tpc' = [tpc EXCEPT ![t] = "done"]
    /\ tinter' = Interleave(t)
    /\ UNCHANGED <<verbose, report_type, scraped_given, visited_urls, cpc,
                   sub_queries, gather_exc, cresult, turls, tidx, tnew, tentry,
                   accepted>>
    /\ UNCHANGED notResearch

ContextFails(t) ==
    /\ tpc[t] = "context"
    /\ TaskRaises(t, "context")

\* ------------------------------------------------------------ conduct_research
\* The other entry point of ResearchSkill, with the visited set it keeps in
\* state["research_state"]. It is explored as an alternative to the web
\* search from the same idle state: the two touch different visited sets.

\* researcher.py 42-58, 73-85, 91-96: conduct_research starts on a state whose
\* research_state is either the empty dict __init__ left (line 30) or was
\* populated by the caller; the search results arrive
ConductStart(B, present, V) ==
    /\ cpc = "idle"
    /\ rs_present' = present
    /\ rs_visited' = IF present THEN V ELSE {}
    /\ rs_results' = B
    /\ rs_idx' = 1
    /\ researcher_logs' = AppendAll(researcher_logs,
           << LogRecord("Starting research", FALSE, FALSE),
              LogRecord("Searching for relevant sources...", FALSE, FALSE),
              LogRecord("Source search completed", TRUE, FALSE),
              LogRecord("Processing sources...", FALSE, FALSE) >>)
    /\ cpc' = "process"
    /\ UNCHANGED <<verbose, report_type, scraped_given, visited_urls, sub_queries,
                   gather_exc, cresult, tpc, turls, tidx, tnew, tout, tentry,
                   tinter, accepted>>
    /\ UNCHANGED notWebSearch

\* researcher.py 118-120 and 69-71: the handlers of a failure inside the loop
ConductErrorEvents ==
    << LogRecord("Error processing sources", TRUE, TRUE),
       LogRecord("Error during research", TRUE, TRUE) >>

\* researcher.py 97-113: one search result. The read of
\* research_state["visited_urls"] raises KeyError when the key is missing; a
\* visited URL is skipped; a new one is extracted, analysed and marked.
ProcessResult ==
    /\ cpc = "process"
    /\ rs_idx <= Len(rs_results)
    /\ IF ~rs_present
       THEN /\ researcher_logs' = AppendAll(researcher_logs, ConductErrorEvents)
            /\ cresult' = Raised("conduct", 0)
            /\ cpc' = "raised"
            /\ UNCHANGED <<rs_visited, rs_idx>>
       ELSE /\ rs_visited' = IF IsNewUrl(rs_results[rs_idx], rs_visited)
                             THEN MarkVisited(rs_visited, rs_results[rs_idx])
                             ELSE rs_visited
            /\ rs_idx' = rs_idx + 1
            /\ UNCHANGED <<researcher_logs, cresult, cpc>>
    /\ UNCHANGED <<verbose, report_type, scraped_given, visited_urls, sub_queries,
                   gather_exc, tpc, turls, tidx, tnew, tout, tentry,
                   tinter, accepted, rs_present, rs_results>>
    /\ UNCHANGED notWebSearch

\* researcher.py 103-104: extracting or analysing a new URL raises, before
\* the URL is marked
ProcessResultFails ==
    /\ cpc = "process"
    /\ rs_idx <= Len(rs_results)
    /\ rs_present
    /\ IsNewUrl(rs_results[rs_idx], rs_visited)
    /\ researcher_logs' = AppendAll(researcher_logs, ConductErrorEvents)
    /\ cresult' = Raised("conduct", 0)
    /\ cpc' = "raised"
    /\ UNCHANGED <<verbose, report_type, scraped_given, visited_urls, sub_queries,
                   gather_exc, tpc, turls, tidx, tnew, tout, tentry,
                   tinter, accepted>>
    /\ UNCHANGED conductVars
    /\ UNCHANGED notWebSearch

\* researcher.py 115-116 and 63-71: the loop is over; extending
\* research_state["research_summary"] raises KeyError when the key is missing
ConductReturn ==
    /\ cpc = "process"
    /\ rs_idx > Len(rs_results)
    /\ IF rs_present
       THEN /\ researcher_logs' = AppendAll(researcher_logs,
                   << LogRecord("Source processing completed", TRUE, FALSE),
                      LogRecord("Research completed", TRUE, FALSE) >>)
            /\ cresult' = [kind |-> "conducted"]
            /\ cpc' = "returned"
       ELSE /\ researcher_logs' = AppendAll(researcher_logs,
                   << LogRecord("Source processing completed", TRUE, FALSE),
                      LogRecord("Error during research", TRUE, TRUE) >>)
            /\ cresult' = Raised("conduct", 0)
            /\ cpc' = "raised"
    /\ UNCHANGED <<verbose, report_type, scraped_given, visited_urls, sub_queries,
                   gather_exc, tpc, turls, tidx, tnew, tout, tentry,
                   tinter, accepted>>
    /\ UNCHANGED conductVars
    /\ UNCHANGED notWebSearch

NextResearch ==
    \/ \E B \in Batches, present \in BOOLEAN, V \in SUBSET Urls :
           ConductStart(B, present, V)
    \/ ProcessResult
    \/ ProcessResultFails
    \/ ConductReturn
    \/ StartWebSearch
    \/ \E o \in Outlines : PlanResearch(o)
    \/ PlanFails
    \/ GatherReturns
    \/ GatherRaises
    \/ \E t \in Tasks : StartSubQuery(t)
    \/ \E t \in Tasks, B \in Batches : RetrieverSearch(t, B)
    \/ \E t \in Tasks : RetrieverFails(t)
    \/ \E t \in Tasks : GetNewUrlsEnter(t)
    \/ \E t \in Tasks : GetNewUrlsLoop(t)
    \/ \E t \in Tasks : GetNewUrlsReturn(t)
    \/ \E t \in Tasks : BrowseUrls(t)
    \/ \E t \in Tasks : BrowseFails(t)
    \/ \E t \in Tasks, found \in BOOLEAN : SimilarContent(t, found)
    \/ \E t \in Tasks : ContextFails(t)

\* ============================================================================
\* Part 2 (SpecReview): the review-revise workflow that
\* EditorAgent._create_workflow builds: researcher -> reviewer ->
\* {END | reviser -> reviewer}.
\* ============================================================================
MaxRounds == 3     \* revisions explored before the model stops following the loop

\* Python None, and a piece of text: its identity and whether the substring
\* "None" occurs in it
None == [kind |-> "None"]
Text(id, saysNone) == [kind |-> "text", id |-> id, none |-> saysNone]

\* the drafts the researcher and the reviser's model call can produce
Drafts == {Text("d1", FALSE), Text("d2", FALSE)}

\* the reviewer's model responses: no notes ("r0") or revision notes, each with
\* or without the substring "None"
Responses == {Text(id, n) : id \in {"r0", "r1", "r2"}, n \in BOOLEAN}

\* dict.get(key) and the merge of a node's returned update into the DraftState
Get(ds, key) == IF key \in DOMAIN ds THEN ds[key] ELSE None
Put(ds, key, val) == [k \in DOMAIN ds \cup {key} |-> IF k = key THEN val ELSE ds[k]]

\* editor.py 317-324: _create_task_input
TaskInput ==
    [k \in {"task", "topic", "title", "headers"} |-> Text(k, FALSE)]

\* the records the agents append to state["research_logs"]
Progress(message, done) == [message |-> message, done |-> done]
Failure(message) == [message |-> message, done |-> TRUE, error |-> TRUE]

InitReview ==
    /\ follow_guidelines \in BOOLEAN
    /\ reviewer_stub \in {"any", "always"}
    /\ draft_state = TaskInput
    /\ wnode = "researcher"
    /\ wstatus = "running"
    /\ research_logs = <<>>
    /\ n_reviews = 0
    /\ n_model_reviews = 0
    /\ n_feedback = 0
    /\ n_revisions = 0
    /\ first_draft = None
    /\ reviewed = None
    /\ revise_prompt = [draft |-> None, feedback |-> None]
    /\ revised = None

\* editor.py 295, 299-300 and researcher.py (agents) 54-61: the entry node
\* produces the draft, and the edge leads to the reviewer
ResearcherNode(d) ==
    /\ wstatus = "running" /\ wnode = "researcher"
    /\ draft_state' = Put(draft_state, "draft", d)
    /\ first_draft' = d
    /\ wnode' = "reviewer"
    /\ UNCHANGED <<follow_guidelines, reviewer_stub, wstatus, research_logs,
                   n_reviews, n_model_reviews, n_feedback, n_revisions, reviewed,
                   revise_prompt, revised>>
    /\ UNCHANGED notReview

\* reviewer.py 64-66: `if "None" in response: return None` else the response
ReviewOf(response) == IF response.none THEN None ELSE response

\* reviewer.py 80-82: the review is requested only when the task follows
\* guidelines
ShouldReviewAlways(follow) == TRUE

ShouldReview(follow) == follow

\* editor.py 302-306: the conditional edge out of the reviewer, which looks at
\* the review alone; the code has no round limit
RouteAlwaysAccept(ds) == "accept"

RouteWithRoundLimit(ds) ==
    IF Get(ds, "review") = None \/ n_revisions >= 2 THEN "accept" ELSE "revise"

Route(ds) == IF Get(ds, "review") = None THEN "accept" ELSE "revise"

\* editor.py 305-306: the edge map
EdgeTargetSwapped(choice) == IF choice = "accept" THEN "reviser" ELSE "END"

EdgeTarget(choice) == IF choice = "accept" THEN "END" ELSE "reviser"

\* the responses the stubbed model can give
StubResponses == IF reviewer_stub = "always"
                 THEN {r \in Responses : ~r.none}
                 ELSE Responses

\* reviewer.py 77-93 with review_draft 19-66, then the conditional edge
ReviewerNode(response) ==
    /\ wstatus = "running" /\ wnode = "reviewer"
    /\ LET asked == ShouldReview(follow_guidelines)
           review == IF asked THEN ReviewOf(response) ELSE None
           ds == Put(draft_state, "review", review)
       IN /\ draft_state' = ds
          /\ research_logs' =
                IF asked
                THEN AppendAll(research_logs,
                               << Progress("Starting draft review...", FALSE),
                                  Progress("Draft review completed.", TRUE) >>)
                ELSE research_logs
          /\ n_model_reviews' = IF asked THEN n_model_reviews + 1 ELSE n_model_reviews
          /\ reviewed' = IF asked THEN Get(draft_state, "draft") ELSE reviewed
          /\ n_feedback' = IF review # None THEN n_feedback + 1 ELSE n_feedback
          /\ wnode' = EdgeTarget(Route(ds))
          /\ wstatus' = IF wnode' = "END" THEN "ended" ELSE "running"
    /\ n_reviews' = n_reviews + 1
    /\ UNCHANGED <<follow_guidelines, reviewer_stub, n_revisions, first_draft,
                   revise_prompt, revised>>
    /\ UNCHANGED notReview

\* reviewer.py 68-75: the reviewer's model call raises
ReviewerRaises ==
    /\ wstatus = "running" /\ wnode = "reviewer"
    /\ ShouldReview(follow_guidelines)
    /\ research_logs' = AppendAll(research_logs,
           << Progress("Starting draft review...", FALSE),
              Failure("Error during draft review") >>)
    /\ n_model_reviews' = n_model_reviews + 1
    /\ wstatus' = "raised"
    /\ UNCHANGED <<follow_guidelines, reviewer_stub, draft_state, wnode, n_reviews,
                   n_feedback, n_revisions, first_draft, reviewed, revise_prompt,
                   revised>>
    /\ UNCHANGED notReview

\* reviser.py 31-33: what the revision prompt is built from
RevisePrompt(ds) == [draft |-> Get(ds, "draft"), feedback |-> Get(ds, "feedback")]

\* reviser.py 23-60 and editor.py 297, 301: the node "reviser" executes the
\* ReviserAgent's one coroutine, revise (editor.py names it `run`, which the
\* class does not define). The model returns the revised draft, which
\* replaces the draft, and the edge leads back to the reviewer
ReviserNode(d) ==
    /\ wstatus = "running" /\ wnode = "reviser"
    /\ n_revisions < MaxRounds
    /\ revise_prompt' = RevisePrompt(draft_state)
    /\ research_logs' = AppendAll(research_logs,
           << Progress("Starting draft revision...", FALSE),
              Progress("Draft revision completed", TRUE) >>)
    /\ draft_state' = Put(draft_state, "draft", d)
    /\ revised' = d
    /\ n_revisions' = n_revisions + 1
    /\ wnode' = "reviewer"
    /\ UNCHANGED <<follow_guidelines, reviewer_stub, wstatus, n_reviews,
                   n_model_reviews, n_feedback, first_draft, reviewed>>
    /\ UNCHANGED notReview

\* reviser.py 62-69: the reviser's model call raises
ReviserRaises ==
    /\ wstatus = "running" /\ wnode = "reviser"
    /\ n_revisions < MaxRounds
    /\ revise_prompt' = RevisePrompt(draft_state)
    /\ research_logs' = AppendAll(research_logs,
           << Progress("Starting draft revision...", FALSE),
              Failure("Error during draft revision") >>)
    /\ wstatus' = "raised"
    /\ UNCHANGED <<follow_guidelines, reviewer_stub, draft_state, wnode, n_reviews,
                   n_model_reviews, n_feedback, n_revisions, first_draft, reviewed,
                   revised>>
    /\ UNCHANGED notReview

NextReview ==
    \/ \E d \in Drafts : ResearcherNode(d)
    \/ \E r \in StubResponses : ReviewerNode(r)
    \/ ReviewerRaises
    \/ \E d \in Drafts : ReviserNode(d)
    \/ ReviserRaises

\* ============================================================================
\* Part 3 (SpecReport): generate_report and its fallback prompt form.
\* ============================================================================
\* agent_role_prompt, and the prompt text of the two report templates
\* (report_generation.py 312-315), as token lists
RolePrompts == {<<"role-a">>, <<"role-b">>}
ContentPrompts == {<<"subtopic-prompt">>, <<"report-prompt">>}

\* the texts a successful model call can return
ReportTexts == {<<>>, <<"report-1">>, <<"report-2">>}

\* report_generation.py 326-329: the structured prompt
StructuredMessages(role, content) ==
    << [role |-> "system", content |-> role],
       [role |-> "user", content |-> content] >>

\* report_generation.py 346-348: f"{agent_role_prompt}\n\n{content}" in one
\* user message
FlattenedMessages(role, content) ==
    << [role |-> "user", content |-> role \o <<"\n\n">> \o content] >>

\* report_generation.py 310: report = ""
InitialReportUnset == <<"unset">>

InitialReport == <<>>

\* report_generation.py 342: the handler that issues the fallback call is
\* entered only when the try block raised
FallbackAlways(ok) == TRUE

FallbackNeeded(ok) == ~ok

CallOk(text) == [ok |-> TRUE, text |-> text]
CallFailed == [ok |-> FALSE, text |-> <<>>]

InitReport ==
    /\ g_state \in BOOLEAN
    /\ g_role \in RolePrompts
    /\ g_content \in ContentPrompts
    /\ gpc = "idle"
    /\ g_calls = <<>>
    /\ g_outcomes = <<>>
    /\ g_report = <<>>
    /\ g_result = NoResult
    /\ writer_logs = <<>>

\* report_generation.py 309-322: the prompt is built, report is initialised and
\* the start is logged when a state was given
GenerateStart ==
    /\ gpc = "idle"
    /\ g_report' = InitialReport
    /\ writer_logs' = IF g_state
                      THEN Append(writer_logs, Progress("Generating report...", FALSE))
                      ELSE writer_logs
    /\ gpc' = "structured"
    /\ UNCHANGED <<g_state, g_role, g_content, g_calls, g_outcomes, g_result>>
    /\ UNCHANGED notReport

\* report_generation.py 324-341: the structured call returns or raises
StructuredCall(outcome) ==
    /\ gpc = "structured"
    /\ g_calls' = Append(g_calls, StructuredMessages(g_role, g_content))
    /\ g_outcomes' = Append(g_outcomes, outcome)
    /\ g_report' = IF outcome.ok THEN outcome.text ELSE g_report
    /\ writer_logs' = IF outcome.ok /\ g_state
                      THEN Append(writer_logs, Progress("Report generated", TRUE))
                      ELSE writer_logs
    /\ gpc' = IF FallbackNeeded(outcome.ok) THEN "fallback" ELSE "return"
    /\ UNCHANGED <<g_state, g_role, g_content, g_result>>
    /\ UNCHANGED notReport

\* report_generation.py 343-363: the single-message call returns, or raises
\* and the failure is logged (when a state was given) and printed
FallbackCall(outcome) ==
    /\ gpc = "fallback"
    /\ g_calls' = Append(g_calls, FlattenedMessages(g_role, g_content))
    /\ g_outcomes' = Append(g_outcomes, outcome)
    /\ g_report' = IF outcome.ok THEN outcome.text ELSE g_report
    /\ writer_logs' = IF ~outcome.ok /\ g_state
                      THEN Append(writer_logs, Failure("Error generating report"))
                      ELSE writer_logs
    /\ gpc' = "return"
    /\ UNCHANGED <<g_state, g_role, g_content, g_result>>
    /\ UNCHANGED notReport

\* report_generation.py 365: return report
GenerateReturn ==
    /\ gpc = "return"
    /\ g_result' = Content(g_report)
    /\ gpc' = "done"
    /\ UNCHANGED <<g_state, g_role, g_content, g_calls, g_outcomes, g_report,
                   writer_logs>>
    /\ UNCHANGED notReport

CallOutcomes == {CallOk(t) : t \in ReportTexts} \cup {CallFailed}

NextReport ==
    \/ GenerateStart
    \/ \E o \in CallOutcomes : StructuredCall(o)
    \/ \E o \in CallOutcomes : FallbackCall(o)
    \/ GenerateReturn

\* ============================================================================
\* Part 4 (SpecCurate): SourceCurator.curate_sources and its fail-open policy.
\* ============================================================================
MaxSources == 2    \* length of source_data
MaxCurated == 3    \* length of the list the model's JSON output holds

\* the source documents
Sources == {"s1", "s2", "s3"}
SourceLists == UNION {[1..n -> Sources] : n \in 0..MaxSources}

\* the values of max_results the callers pass
MaxResultsChoices == {1, 2}

\* The errors a model call can end with: a provider failure, the
\* unsupported-provider ValueError of GenericLLMProvider.from_provider, and the
\* ValueError add_costs raises when the cost callback hands it a non-number.
ModelErrors == {"model_error", "config_error", "cost_error"}

\* what create_chat_completion hands back: text that json.loads turns into a
\* list, text that json.loads rejects, or an exception
JsonList(l) == [kind |-> "json", val |-> l]
Unparsable == [kind |-> "unparsable"]
CallRaised(e) == [kind |-> "raised", error |-> e]
NoCall == [kind |-> "none"]

ModelOutputs ==
    {JsonList(l) : l \in UNION {[1..n -> Sources] : n \in 0..MaxCurated}}
        \cup {Unparsable}

Returned(v) == [kind |-> "returned", val |-> v]

\* curator.py 71: json.loads(response) succeeds
Parses(out) == out.kind = "json"

\* curator.py 80: the parsed model output is returned as it is
CuratedResult(parsed, max_results) == parsed

\* curator.py 85: the handler returns source_data
FailOpenEmpty(source_data) == <<>>

FailOpenResult(source_data) == source_data

InitCurate ==
    /\ cu_sources \in SourceLists
    /\ cu_max \in MaxResultsChoices
    /\ cu_pc = "idle"
    /\ cu_outcome = NoCall
    /\ cu_logs = <<>>
    /\ cu_curated = None
    /\ cu_result = NoResult

\* curator.py 52-53: the opening event
CurateStart ==
    /\ cu_pc = "idle"
    /\ cu_logs' = Append(cu_logs,
           LogRecord("Evaluating and curating sources", FALSE, FALSE))
    /\ cu_pc' = "call"
    /\ UNCHANGED <<cu_sources, cu_max, cu_outcome, cu_curated, cu_result>>
    /\ UNCHANGED notCurate

\* curator.py 57-80 and 82-85: the model call returns text; a parsed list is
\* stored and returned, unparsable text is handled by the except clause
CurateModelReturns(out) ==
    /\ cu_pc = "call"
    /\ cu_outcome' = out
    /\ IF Parses(out)
       THEN /\ cu_logs' = AppendAll(cu_logs,
                   << LogRecord("Curated sources", TRUE, FALSE),
                      LogRecord("Verified and ranked top sources", FALSE, FALSE) >>)
            /\ cu_curated' = out.val
            /\ cu_result' = Returned(CuratedResult(out.val, cu_max))
       ELSE /\ cu_logs' = Append(cu_logs,
                   LogRecord("Error curating sources", TRUE, TRUE))
            /\ cu_curated' = cu_curated
            /\ cu_result' = Returned(FailOpenResult(cu_sources))
    /\ cu_pc' = "done"
    /\ UNCHANGED <<cu_sources, cu_max>>
    /\ UNCHANGED notCurate

\* curator.py 57-69 and 82-85: the model call raises; `except Exception`
\* handles every error alike
CurateModelRaises(e) ==
    /\ cu_pc = "call"
    /\ cu_outcome' = CallRaised(e)
    /\ cu_logs' = Append(cu_logs, LogRecord("Error curating sources", TRUE, TRUE))
    /\ cu_result' = Returned(FailOpenResult(cu_sources))
    /\ cu_pc' = "done"
    /\ UNCHANGED <<cu_sources, cu_max, cu_curated>>
    /\ UNCHANGED notCurate

NextCurate ==
    \/ CurateStart
    \/ \E out \in ModelOutputs : CurateModelReturns(out)
    \/ \E e \in ModelErrors : CurateModelRaises(e)

\* ============================================================================
\* Part 5 (SpecLedger): the cost total of the shared state, GPTResearcher.add_costs
\* and the constructors that initialise state["costs"].
\* ============================================================================
MaxCalls == 3      \* add_costs calls explored

\* Amounts, in units of cost. Python values by type: int and float carry any
\* value, bool is 0 or 1, a string holding a number, and None.
CostValues == {-1, 0, 1, 2}
Amounts ==
    {[kind |-> k, val |-> v] : k \in {"int", "float"}, v \in CostValues}
        \cup {[kind |-> "bool", val |-> v] : v \in {0, 1}}
        \cup {[kind |-> "str", val |-> 1], [kind |-> "none", val |-> 0]}

\* agent.py 235: isinstance(cost, (float, int)); bool is a subclass of int
IsValidCostLoose(a) == a.kind \in {"float", "int", "bool", "str"}

IsValidCost(a) == a.kind \in {"float", "int", "bool"}

\* agent.py 237: self.state["costs"] += cost
AddToTotalAssigns(total, amount) == amount

AddToTotal(total, amount) == total + amount

\* dict.setdefault (agent.py 67, researcher.py 29): an existing value is kept
SetDefaultOverwrites(present, cur, v) == v

SetDefault(present, cur, v) == IF present THEN cur ELSE v

NoCostCall == [kind |-> "none"]
CostCall(a, result) == [kind |-> "call", amount |-> a, result |-> result]

InitLedger ==
    /\ costs_set = FALSE
    /\ costs = 0
    /\ log_handler \in {"absent", "none", "set"}
    /\ lg_n = 0
    /\ lg_sum = 0
    /\ lg_neg = FALSE
    /\ lg_last = NoCostCall

\* agent.py 50-69: GPTResearcher.__init__ on a state without "costs"
ConstructResearcher ==
    /\ ~costs_set
    /\ costs' = SetDefault(costs_set, costs, 0)
    /\ costs_set' = TRUE
    /\ UNCHANGED <<log_handler, lg_n, lg_sum, lg_neg, lg_last>>
    /\ UNCHANGED notLedger

\* researcher.py 27-30: ResearchSkill.__init__ on the shared state, at any time
ConstructSkill ==
    /\ costs_set
    /\ costs' = SetDefault(costs_set, costs, 0)
    /\ lg_last' = NoCostCall
    /\ UNCHANGED <<costs_set, log_handler, lg_n, lg_sum, lg_neg>>
    /\ UNCHANGED notLedger

\* agent.py 234-243: add_costs. A rejected amount raises ValueError before the
\* state is touched; an accepted one is added, after which the read of
\* state["log_handler"] raises KeyError when the state has no such key.
AddCosts(a) ==
    /\ costs_set
    /\ lg_n < MaxCalls
    /\ lg_n' = lg_n + 1
    /\ IF ~IsValidCost(a)
       THEN /\ lg_last' = CostCall(a, "ValueError")
            /\ UNCHANGED <<costs, lg_sum, lg_neg>>
       ELSE /\ costs' = AddToTotal(costs, a.val)
            /\ lg_sum' = lg_sum + a.val
            /\ lg_neg' = (lg_neg \/ a.val < 0)
            /\ lg_last' = CostCall(a, IF log_handler = "absent"
                                      THEN "KeyError" ELSE "ok")
    /\ UNCHANGED <<costs_set, log_handler>>
    /\ UNCHANGED notLedger

NextLedger ==
    \/ ConstructResearcher
    \/ ConstructSkill
    \/ \E a \in Amounts : AddCosts(a)

\* ============================================================================
\* Part 6 (SpecImages): BrowserSkill.select_top_images as a function of its
\* candidate list, k, the image hashes and the images already in the state.
\* ============================================================================
MaxImages == 3     \* length of the candidate lists enumerated

ImageUrls == {"i1", "i2", "i3", "i4", "i5"}
ListUrls == {"i1", "i2", "i3"}
Scores == 0..3
Image(u, sc) == [url |-> u, score |-> sc]

\* get_image_hash returns nothing for an image it cannot fetch or decode
NoHash == "no-hash"

\* the hashes of the images, each named after the first URL with that
\* content: all different; two images with the same content; one image
\* without a hash
HashMaps ==
    { [u \in ImageUrls |-> u],
      [u \in ImageUrls |-> IF u = "i2" THEN "i1" ELSE u],
      [u \in ImageUrls |-> IF u = "i3" THEN NoHash ELSE u] }

\* the list of the documented example: scores 3, 1, 3, 0, 2
ExampleImages ==
    << Image("i1", 3), Image("i2", 1), Image("i3", 3), Image("i4", 0),
       Image("i5", 2) >>

ImageLists ==
    UNION {[1..n -> {Image(u, sc) : u \in ListUrls, sc \in Scores}] :
               n \in 0..MaxImages}
        \cup {ExampleImages}

KChoices == {1, 2, 4}

\* browser.py 81: the high-score partition
HighScoreNone(img) == FALSE

HighScore(img) == img.score >= 2

\* the elements of s that satisfy Keep, in order
RECURSIVE FilterImages(_, _, _)
FilterImages(s, i, wantHigh) ==
    IF i > Len(s) THEN <<>>
    ELSE (IF HighScore(s[i]) = wantHigh THEN <<s[i]>> ELSE <<>>)
             \o FilterImages(s, i + 1, wantHigh)

\* browser.py 85: `img_hash not in seen_hashes`
HashSeenNever(h, seen) == FALSE

HashSeen(h, seen) == h \in seen

\* browser.py 83-90: the loop over high_score_images + images
RECURSIVE SelectLoop(_, _, _, _, _, _, _)
SelectLoop(seq, i, seen, unique, k, current, hash) ==
    IF i > Len(seq) THEN unique
    ELSE LET url == seq[i].url
             h == hash[url]
         IN IF h # NoHash /\ ~HashSeen(h, seen) /\ url \notin current
            THEN IF Len(unique) + 1 = k
                 THEN Append(unique, url)
                 ELSE SelectLoop(seq, i + 1, seen \cup {h}, Append(unique, url),
                                 k, current, hash)
            ELSE SelectLoop(seq, i + 1, seen, unique, k, current, hash)

\* browser.py 65-92
select_top_images(images, k, current, hash) ==
    SelectLoop(FilterImages(images, 1, TRUE) \o images, 1, {}, <<>>, k,
               current, hash)

InitImages ==
    /\ im_images \in ImageLists
    /\ im_k \in KChoices
    /\ im_hash \in HashMaps
    /\ im_current \in {{}, {"i1"}}
    /\ im_pc = "idle"
    /\ im_selected = <<>>

SelectTopImages ==
    /\ im_pc = "idle"
    /\ im_selected' = select_top_images(im_images, im_k, im_current, im_hash)
    /\ im_pc' = "done"
    /\ UNCHANGED <<im_images, im_k, im_hash, im_current>>
    /\ UNCHANGED notImages

NextImages == SelectTopImages

\* ============================================================================
\* Part 7 (SpecBrowse): BrowserSkill.browse_urls, called in sequence or by
\* concurrent sub-query tasks, and what it leaves in the shared state.
\* ============================================================================
MaxBrowse == 3     \* browse_urls calls explored

\* the calls that can be in flight at once
BrowseCalls == {1, 2}

\* what the scraper can return: documents and image candidates
DocLists == {<<>>, <<"d1">>, <<"d2">>, <<"d1", "d2">>}
ScrapedImages ==
    {<<>>, <<Image("i1", 3)>>, <<Image("i2", 1), Image("i3", 2)>>}

\* every image has its own hash
OwnHash == [u \in ImageUrls |-> u]

\* browser.py 34-35: the state keys are assigned the call's own results
StoreSources(old, scraped) == scraped
StoreImages(old, selected) == selected

InitBrowse ==
    /\ research_sources = <<>>
    /\ research_images = <<>>
    /\ browse_logs = <<>>
    /\ bpc = [c \in BrowseCalls |-> "idle"]
    /\ bdocs = [c \in BrowseCalls |-> <<>>]
    /\ bimgs = [c \in BrowseCalls |-> <<>>]
    /\ br_n = 0
    /\ br_returned = {}
    /\ br_selected = {}

\* browser.py 17-25: the opening event; the call awaits the scraper
BrowseStart(c) ==
    /\ bpc[c] \in {"idle", "done", "failed"}
    /\ br_n < MaxBrowse
    /\ br_n' = br_n + 1
    /\ browse_logs' = Append(browse_logs, Progress("Browsing URLs", FALSE))
    /\ bpc' = [bpc EXCEPT ![c] = "scrape"]
    /\ bdocs' = [bdocs EXCEPT ![c] = <<>>]
    /\ bimgs' = [bimgs EXCEPT ![c] = <<>>]
    /\ UNCHANGED <<research_sources, research_images, br_returned, br_selected>>
    /\ UNCHANGED notBrowse

\* browser.py 25-31: the scraper returns; the success event is emitted
ScrapeReturns(c, docs, imgs) ==
    /\ bpc[c] = "scrape"
    /\ bdocs' = [bdocs EXCEPT ![c] = docs]
    /\ bimgs' = [bimgs EXCEPT ![c] = imgs]
    /\ browse_logs' = Append(browse_logs,
                             Progress("Successfully extracted content", TRUE))
    /\ bpc' = [bpc EXCEPT ![c] = "store"]
    /\ UNCHANGED <<research_sources, research_images, br_n, br_returned,
                   br_selected>>
    /\ UNCHANGED notBrowse

\* browser.py 56-63 and 39-46: the scraper raises; both handlers log, the
\* call raises
ScrapeFails(c) ==
    /\ bpc[c] = "scrape"
    /\ browse_logs' = AppendAll(browse_logs,
           << Failure("Error scraping URLs"), Failure("Error browsing URLs") >>)
    /\ bpc' = [bpc EXCEPT ![c] = "failed"]
    /\ UNCHANGED <<research_sources, research_images, bdocs, bimgs, br_n,
                   br_returned, br_selected>>
    /\ UNCHANGED notBrowse

\* browser.py 33-37: the results are stored and the documents returned
StoreAndReturn(c) ==
    /\ bpc[c] = "store"
    /\ LET selected == select_top_images(bimgs[c], 4, SeqToSet(research_images),
                                         OwnHash)
       IN /\ research_sources' = StoreSources(research_sources, bdocs[c])
          /\ research_images' = StoreImages(research_images, selected)
          /\ br_returned' = br_returned \cup SeqToSet(bdocs[c])
          /\ br_selected' = br_selected \cup SeqToSet(selected)
    /\ bpc' = [bpc EXCEPT ![c] = "done"]
    /\ UNCHANGED <<browse_logs, bdocs, bimgs, br_n>>
    /\ UNCHANGED notBrowse

NextBrowse ==
    \/ \E c \in BrowseCalls : BrowseStart(c)
    \/ \E c \in BrowseCalls, docs \in DocLists, imgs \in ScrapedImages :
           ScrapeReturns(c, docs, imgs)
    \/ \E c \in BrowseCalls : ScrapeFails(c)
    \/ \E c \in BrowseCalls : StoreAndReturn(c)

\* ============================================================================
\* Part 8 (SpecContext): ContextManagerSkill's lookup of already written
\* contents, one process_query task per query, merged by set union.
\* ============================================================================
MaxTitles == 2     \* length of draft_section_titles

SectionQueries == {"s1", "s2"}
FragmentTexts == {"f1", "f2", "f3", "f4"}

TitleLists == UNION {[1..n -> SectionQueries] : n \in 0..MaxTitles}

\* written_contents: the example of the compression threshold, a list with a
\* repeated text, a single text, nothing
WrittenLists ==
    { <<"f1", "f2", "f3", "f4">>, <<"f2", "f3", "f2">>, <<"f3">>, <<>> }

\* similarity in tenths of each fragment text to each query
SimilarityTables ==
    { [q \in SectionQueries |->
          IF q = "s1" THEN [f \in FragmentTexts |->
                               CASE f = "f1" -> 9 [] f = "f2" -> 6
                                 [] f = "f3" -> 3 [] OTHER -> 5]
                      ELSE [f \in FragmentTexts |->
                               CASE f = "f3" -> 7 [] OTHER -> 4]],
      [q \in SectionQueries |-> [f \in FragmentTexts |->
                               CASE f = "f1" -> 5 [] OTHER -> 2]] }

DefaultSimilarityThreshold == 5   \* similarity_threshold = 0.5
DefaultMaxResults == 10           \* max_results = 10
MaxResultsArgs == {1, 2, DefaultMaxResults}

Take(s, n) == [i \in 1..(IF n < Len(s) THEN n ELSE Len(s)) |-> s[i]]

\* the fragments of docs, in order, that pass the threshold
RECURSIVE AboveThreshold(_, _, _, _)
AboveThreshold(docs, q, t, sim) ==
    IF docs = <<>> THEN <<>>
    ELSE LET rest == AboveThreshold(Tail(docs), q, t, sim)
         IN IF sim[q][Head(docs)] >= t THEN <<Head(docs)>> \o rest ELSE rest

\* f inserted into a list ordered by descending similarity, after its equals
RECURSIVE InsertDescending(_, _, _, _)
InsertDescending(sorted, f, q, sim) ==
    IF sorted = <<>> THEN <<f>>
    ELSE IF sim[q][f] > sim[q][Head(sorted)] THEN <<f>> \o sorted
    ELSE <<Head(sorted)>> \o InsertDescending(Tail(sorted), f, q, sim)

RECURSIVE OrderDescending(_, _, _)
OrderDescending(docs, q, sim) ==
    IF docs = <<>> THEN <<>>
    ELSE InsertDescending(OrderDescending(Take(docs, Len(docs) - 1), q, sim),
                          docs[Len(docs)], q, sim)

\* WrittenContentCompressor.async_get_context in threshold mode: fragments
\* below the threshold are discarded, the rest ordered by descending
\* similarity and truncated to max_results
ThresholdContext(q, docs, t, max_results, sim) ==
    Take(OrderDescending(AboveThreshold(docs, q, t, sim), q, sim), max_results)

\* context_manager.py 114-128: the default threshold is handed to the
\* compressor
SimilarByQueryNoThreshold(q, docs, sim) ==
    ThresholdContext(q, docs, 0, DefaultMaxResults, sim)

SimilarByQuery(q, docs, sim) ==
    ThresholdContext(q, docs, DefaultSimilarityThreshold, DefaultMaxResults, sim)

\* context_manager.py 105: set().union(*results)
UnionFirstOnly(results) ==
    IF results = <<>> THEN {} ELSE results[1]

UnionOfResults(results) == UNION {results[i] : i \in DOMAIN results}

\* the lists list(S) can be: S in any order
Orderings(S) ==
    {o \in [1..Cardinality(S) -> S] : \A i, j \in DOMAIN o : o[i] = o[j] => i = j}

\* context_manager.py 106: list(relevant_contents)[:max_results]
TruncatedLists(S, max_results) == {Take(o, max_results) : o \in Orderings(S)}

\* "\n".join(relevant_contents), kept as the list joined
Joined(list) == [joined |-> list]

LogEvent(message, done, error) ==
    [message |-> message, done |-> done, error |-> error, timestamp |-> "now"]

InitContext ==
    /\ cx_pc = "idle"
    /\ cx_queries = <<>>
    /\ cx_written = <<>>
    /\ cx_max = DefaultMaxResults
    /\ cx_sim \in SimilarityTables
    /\ cx_task = <<>>
    /\ cx_results = <<>>
    /\ cx_out = <<>>
    /\ cx_logs = <<>>

\* context_manager.py 99-104: one process_query task per query
GetSimilarStart(current_subtopic, draft_section_titles, written_contents, max_results) ==
    /\ cx_pc = "idle"
    /\ cx_queries' = <<current_subtopic>> \o draft_section_titles
    /\ cx_written' = written_contents
    /\ cx_max' = max_results
    /\ cx_task' = [i \in 1..(1 + Len(draft_section_titles)) |-> "new"]
    /\ cx_results' = [i \in 1..(1 + Len(draft_section_titles)) |-> {}]
    /\ cx_pc' = "gather"
    /\ UNCHANGED <<cx_sim, cx_out, cx_logs>>
    /\ UNCHANGED notContext

\* context_manager.py 120: the task logs its query and awaits the compressor
QueryLogged(i) ==
    /\ cx_pc \in {"gather", "raised"}
    /\ i \in DOMAIN cx_task
    /\ cx_task[i] = "new"
    /\ cx_logs' = Append(cx_logs,
           LogEvent(<<"Getting relevant written content", cx_queries[i]>>,
                    FALSE, FALSE))
    /\ cx_task' = [cx_task EXCEPT ![i] = "compress"]
    /\ UNCHANGED <<cx_pc, cx_queries, cx_written, cx_max, cx_sim, cx_results, cx_out>>
    /\ UNCHANGED notContext

\* context_manager.py 121-128 and 102: the compressor returns, the task
\* returns the set of the texts
QueryReturns(i) ==
    /\ cx_pc \in {"gather", "raised"}
    /\ i \in DOMAIN cx_task
    /\ cx_task[i] = "compress"
    /\ cx_results' = [cx_results EXCEPT
           ![i] = SeqToSet(SimilarByQuery(cx_queries[i], cx_written, cx_sim))]
    /\ cx_task' = [cx_task EXCEPT ![i] = "done"]
    /\ UNCHANGED <<cx_pc, cx_queries, cx_written, cx_max, cx_sim, cx_out, cx_logs>>
    /\ UNCHANGED notContext

\* the compressor raises: gather hands the exception to the caller at once,
\* the other tasks keep running
QueryRaises(i) ==
    /\ cx_pc \in {"gather", "raised"}
    /\ i \in DOMAIN cx_task
    /\ cx_task[i] = "compress"
    /\ cx_task' = [cx_task EXCEPT ![i] = "failed"]
    /\ cx_pc' = "raised"
    /\ UNCHANGED <<cx_queries, cx_written, cx_max, cx_sim, cx_results, cx_out, cx_logs>>
    /\ UNCHANGED notContext

\* context_manager.py 104-112: every task returned; union, truncation, the
\* closing event when the list is not empty
MergeAndReturn ==
    /\ cx_pc = "gather"
    /\ \A i \in DOMAIN cx_task : cx_task[i] = "done"
    /\ \E list \in TruncatedLists(UnionOfResults(cx_results), cx_max) :
          /\ cx_out' = list
          /\ cx_logs' = IF list # <<>>
                          THEN Append(cx_logs, LogEvent(Joined(list), TRUE, FALSE))
                          ELSE cx_logs
    /\ cx_pc' = "done"
    /\ UNCHANGED <<cx_queries, cx_written, cx_max, cx_sim, cx_task, cx_results>>
    /\ UNCHANGED notContext

NextContext ==
    \/ \E q \in SectionQueries, titles \in TitleLists, w \in WrittenLists,
          m \in MaxResultsArgs : GetSimilarStart(q, titles, w, m)
    \/ \E i \in 1..(1 + MaxTitles) : QueryLogged(i)
    \/ \E i \in 1..(1 + MaxTitles) : QueryReturns(i)
    \/ \E i \in 1..(1 + MaxTitles) : QueryRaises(i)
    \/ MergeAndReturn

\* ============================================================================
\* Part 9 (SpecPlan): plan_research and the sub-queries its two callers fan
\* out, up to the first step of every branch (Part 1 follows the branches of
\* the web-search path further).
\* ============================================================================
MaxOutline == 2    \* length of the planner's outline

\* the planner can repeat an entry and can return the original query
PlanOutlines == UNION {[1..n -> {Query, "q1"}] : n \in 0..MaxOutline}

ResearchPaths == {"web", "vectorstore"}

\* the exceptions the initial search and the planning model call can raise
SearchError == "retriever_error"
PlanningError == "model_error"

\* the entry event of each path (researcher.py 258, 223)
EntryEvent(path) ==
    IF path = "web" THEN LogEvent("Starting web search", FALSE, FALSE)
    ELSE LogEvent("Searching vectorstore", FALSE, FALSE)

\* the events of the handlers an exception of plan_research passes
\* (researcher.py 184-186, then 301-303 or 252-254)
PlanErrorEvents(path, exc) ==
    << LogEvent(<<"Error planning research", exc>>, TRUE, TRUE),
       IF path = "web" THEN LogEvent(<<"Error starting web search", exc>>, TRUE, TRUE)
       ELSE LogEvent(<<"Error searching vectorstore", exc>>, TRUE, TRUE) >>

\* the first event of a branch (researcher.py 307, 378)
BranchEvent(path, sub_query) ==
    IF path = "web" THEN LogEvent(<<"Processing sub query", sub_query>>, FALSE, FALSE)
    ELSE LogEvent(<<"Processing sub query with vectorstore", sub_query>>, FALSE, FALSE)

\* `raise e`: the exception caught is the one raised
Reraised(exc) == [kind |-> "exception", exc |-> exc]

InitPlan ==
    /\ pl_path \in ResearchPaths
    /\ pl_report_type \in {"research_report", "subtopic_report"}
    /\ pl_verbose \in BOOLEAN
    /\ pl_pc = "idle"
    /\ pl_outline = <<>>
    /\ pl_branches = <<>>
    /\ pl_started = {}
    /\ pl_model_calls = 0
    /\ pl_logs = <<>>
    /\ pl_result = NoResult

\* researcher.py 258/223 and 150-160: the entry event, plan_research's
\* opening event, then the initial search is awaited
PlanEnter ==
    /\ pl_pc = "idle"
    /\ pl_logs' = AppendAll(pl_logs,
           << EntryEvent(pl_path), LogEvent("Planning research", FALSE, FALSE) >>)
    /\ pl_pc' = "plan_search"
    /\ UNCHANGED <<pl_path, pl_report_type, pl_verbose, pl_outline, pl_branches,
                   pl_started, pl_model_calls, pl_result>>
    /\ UNCHANGED notPlan

\* researcher.py 160-172: the initial search returns; plan_research_outline
\* is awaited
InitialSearchReturns ==
    /\ pl_pc = "plan_search"
    /\ pl_pc' = "plan_model"
    /\ UNCHANGED <<pl_path, pl_report_type, pl_verbose, pl_outline, pl_branches,
                   pl_started, pl_model_calls, pl_logs, pl_result>>
    /\ UNCHANGED notPlan

\* researcher.py 184-186 and the caller's handler: an exception of
\* plan_research is logged and raised again by each handler it passes
PlanRaises(exc) ==
    /\ pl_logs' = AppendAll(pl_logs, PlanErrorEvents(pl_path, exc))
    /\ pl_result' = Reraised(exc)
    /\ pl_pc' = "raised"

InitialSearchFails ==
    /\ pl_pc = "plan_search"
    /\ PlanRaises(SearchError)
    /\ UNCHANGED <<pl_path, pl_report_type, pl_verbose, pl_outline, pl_branches,
                   pl_started, pl_model_calls>>
    /\ UNCHANGED notPlan

\* researcher.py 172-183, then 264-288 or 228-249: the planner's one model
\* call returns the outline; the caller appends the original query unless
\* this is a sub-topic report and hands one coroutine per entry to gather
PlanModelReturns(outline) ==
    /\ pl_pc = "plan_model"
    /\ pl_model_calls' = pl_model_calls + 1
    /\ pl_outline' = outline
    /\ pl_logs' = Append(pl_logs,
                         LogEvent(<<"Research outline planned", outline>>, TRUE, FALSE))
    /\ pl_branches' = WithOriginalQuery(outline, pl_report_type)
    /\ pl_pc' = "gather"
    /\ UNCHANGED <<pl_path, pl_report_type, pl_verbose, pl_started, pl_result>>
    /\ UNCHANGED notPlan

\* a planner that calls the model again after a failure
PlanModelFailsRetries ==
    /\ pl_pc = "plan_model"
    /\ pl_model_calls < 2
    /\ pl_model_calls' = pl_model_calls + 1
    /\ UNCHANGED <<pl_path, pl_report_type, pl_verbose, pl_pc, pl_outline,
                   pl_branches, pl_started, pl_logs, pl_result>>
    /\ UNCHANGED notPlan

\* researcher.py 172-186: the planner's model call raises
PlanModelFails ==
    /\ pl_pc = "plan_model"
    /\ pl_model_calls' = pl_model_calls + 1
    /\ PlanRaises(PlanningError)
    /\ UNCHANGED <<pl_path, pl_report_type, pl_verbose, pl_outline, pl_branches,
                   pl_started>>
    /\ UNCHANGED notPlan

\* researcher.py 307, 378: a branch begins with its opening event
BranchStart(i) ==
    /\ pl_pc = "gather"
    /\ i \in DOMAIN pl_branches
    /\ i \notin pl_started
    /\ pl_started' = pl_started \cup {i}
    /\ pl_logs' = Append(pl_logs, BranchEvent(pl_path, pl_branches[i]))
    /\ UNCHANGED <<pl_path, pl_report_type, pl_verbose, pl_pc, pl_outline,
                   pl_branches, pl_model_calls, pl_result>>
    /\ UNCHANGED notPlan

NextPlan ==
    \/ PlanEnter
    \/ InitialSearchReturns
    \/ InitialSearchFails
    \/ \E outline \in PlanOutlines : PlanModelReturns(outline)
    \/ PlanModelFails
    \/ \E i \in 1..(MaxOutline + 1) : BranchStart(i)

\* ============================================================================
\* Part 10 (SpecEvents): _log_event (ResearchSkill, ContextManagerSkill) called
\* by concurrent branches: the record is stamped and appended, then the branch
\* awaits copilotkit_emit_state. A branch logs progress events and ends with
\* a closing event that reports success or an error.
\* ============================================================================
MaxClock == 2      \* clock readings explored
MaxEvents == 2     \* events one branch logs

Branches == {1, 2}

\* a record stamped with the time the branch began its step
TimestampAtEntry(now, entered) == entered

\* researcher.py 38: datetime.now().isoformat(), read in the statement that
\* appends the record
Timestamp(now, entered) == now

EventRecord(message, done, error, stamp) ==
    [message |-> message, done |-> done, error |-> error, timestamp |-> stamp]

InitEvents ==
    /\ ev_now = 0
    /\ ev_log = <<>>
    /\ ev_pc = [b \in Branches |-> "ready"]
    /\ ev_count = [b \in Branches |-> 0]
    /\ ev_entered = [b \in Branches |-> 0]
    /\ ev_pending = {}

\* time passes
ClockTick ==
    /\ ev_now < MaxClock
    /\ ev_now' = ev_now + 1
    /\ UNCHANGED <<ev_log, ev_pc, ev_count, ev_entered, ev_pending>>
    /\ UNCHANGED notEvents

\* researcher.py 34-40, context_manager.py 24-30: the record is appended and
\* copilotkit_emit_state is awaited
LogEventCall(b, done, error) ==
    /\ ev_pc[b] = "ready"
    /\ ev_count[b] < MaxEvents
    /\ done = (ev_count[b] + 1 = MaxEvents)
    /\ error => done
    /\ ev_log' = Append(ev_log,
           EventRecord(<<b, ev_count[b]>>, done, error,
                       Timestamp(ev_now, ev_entered[b])))
    /\ ev_count' = [ev_count EXCEPT ![b] = @ + 1]
    /\ ev_pending' = ev_pending \cup {Len(ev_log) + 1}
    /\ ev_pc' = [ev_pc EXCEPT ![b] = "emitting"]
    /\ UNCHANGED <<ev_now, ev_entered>>
    /\ UNCHANGED notEvents

\* the awaited copilotkit_emit_state returns to the branch that awaited it
EmitReturns(b) ==
    /\ ev_pc[b] = "emitting"
    /\ ev_pending' = ev_pending \ {i \in ev_pending : ev_log[i].message[1] = b}
    /\ ev_pc' = [ev_pc EXCEPT ![b] = "resumed"]
    /\ UNCHANGED <<ev_now, ev_log, ev_count, ev_entered>>
    /\ UNCHANGED notEvents

\* the statement after `await self._log_event(...)`: the branch goes on to its
\* next step, or ends after its last event
StageStep(b) ==
    /\ ev_pc[b] = "resumed"
    /\ ev_pc' = [ev_pc EXCEPT ![b] = IF ev_count[b] < MaxEvents THEN "ready"
                                      ELSE "finished"]
    /\ ev_entered' = [ev_entered EXCEPT ![b] = ev_now]
    /\ UNCHANGED <<ev_now, ev_log, ev_count, ev_pending>>
    /\ UNCHANGED notEvents

NextEvents ==
    \/ ClockTick
    \/ \E b \in Branches, done \in BOOLEAN, error \in BOOLEAN : LogEventCall(b, done, error)
    \/ \E b \in Branches : EmitReturns(b)
    \/ \E b \in Branches : StageStep(b)

\* ============================================================================
\* Part 11 (SpecChief): ChiefEditorAgent.run: the research, writer and
\* publisher stages in sequence, their records in state["research_logs"], and
\* the handler of a stage's exception.
\* ============================================================================
MaxTopics == 2     \* topics the initial research returns

\* what the log can hold when run is called
PriorLogs ==
    { <<>>,
      <<Progress("earlier", TRUE)>>,
      <<Progress("earlier", FALSE), Failure("earlier error")>> }

StageErrors == {"retrieval_error", "model_error", "io_error"}

FinalReport == [kind |-> "report"]

\* a handler that starts the log afresh
RunHandlerResetsLog(log, exc) == <<Failure(<<"Error during research", exc>>)>>

\* orchestrator.py 73-79: the handler's record
RunHandler(log, exc) == Append(log, Failure(<<"Error during research", exc>>))

\* orchestrator.py 53-60, writer.py 25-29: the research stage returned; the
\* writer stage is entered
EnterWriter(log) ==
    AppendAll(log, << Progress("Research completed", TRUE),
                      Progress("Research completed, generating report", FALSE),
                      Progress("Starting to write research report", FALSE) >>)

InitChief ==
    /\ ch_pc = "idle"
    /\ ch_log \in PriorLogs
    /\ ch_topics = 0
    /\ ch_started = <<>>
    /\ ch_at_failure = <<>>
    /\ ch_result = NoResult

\* orchestrator.py 42-51, researcher.py 15-23: the opening record, then the
\* research stage and its opening record
RunStart ==
    /\ ch_pc = "idle"
    /\ ch_log' = AppendAll(ch_log, << Progress("Starting research task", FALSE),
                                      Progress("Running initial research", FALSE) >>)
    /\ ch_started' = <<"research">>
    /\ ch_pc' = "initial_research"
    /\ UNCHANGED <<ch_topics, ch_at_failure, ch_result>>
    /\ UNCHANGED notChief

\* researcher.py 23-43: the initial research returned n topics
InitialResearchReturns(n) ==
    /\ ch_pc = "initial_research"
    /\ IF n > 0
       THEN /\ ch_log' = Append(ch_log, Progress("Running in depth research", FALSE))
            /\ ch_topics' = n - 1
            /\ ch_pc' = "depth_research"
            /\ UNCHANGED ch_started
       ELSE /\ ch_log' = EnterWriter(ch_log)
            /\ ch_started' = Append(ch_started, "writer")
            /\ ch_pc' = "write"
            /\ UNCHANGED ch_topics
    /\ UNCHANGED <<ch_at_failure, ch_result>>
    /\ UNCHANGED notChief

\* researcher.py 26-43: one topic's research returned
DepthResearchReturns ==
    /\ ch_pc = "depth_research"
    /\ IF ch_topics > 0
       THEN /\ ch_log' = Append(ch_log, Progress("Running in depth research", FALSE))
            /\ ch_topics' = ch_topics - 1
            /\ UNCHANGED <<ch_pc, ch_started>>
       ELSE /\ ch_log' = EnterWriter(ch_log)
            /\ ch_started' = Append(ch_started, "writer")
            /\ ch_pc' = "write"
            /\ UNCHANGED ch_topics
    /\ UNCHANGED <<ch_at_failure, ch_result>>
    /\ UNCHANGED notChief

\* the research stage raises; ResearchAgent.run has no handler of its own
\* (orchestrator.py 73-80)
ResearchRaises(exc) ==
    /\ ch_pc \in {"initial_research", "depth_research"}
    /\ ch_at_failure' = ch_log
    /\ ch_log' = RunHandler(ch_log, exc)
    /\ ch_result' = Reraised(exc)
    /\ ch_pc' = "raised"
    /\ UNCHANGED <<ch_topics, ch_started>>
    /\ UNCHANGED notChief

\* writer.py 37-45, orchestrator.py 60-63, publisher.py 59-64
WriterReturns ==
    /\ ch_pc = "write"
    /\ ch_log' = AppendAll(ch_log,
           << Progress("Research report written successfully", TRUE),
              Progress("Publishing final research report", FALSE) >>)
    /\ ch_started' = Append(ch_started, "publisher")
    /\ ch_pc' = "publish"
    /\ UNCHANGED <<ch_topics, ch_at_failure, ch_result>>
    /\ UNCHANGED notChief

\* writer.py 47-54, publisher.py 87-94, then orchestrator.py 73-80: the
\* stage's handler logs and raises again, run's handler does the same
StageRaises(stage, exc) ==
    /\ ch_at_failure' = ch_log
    /\ ch_log' = RunHandler(Append(ch_log, Failure(<<"Error in stage", stage, exc>>)), exc)
    /\ ch_result' = Reraised(exc)
    /\ ch_pc' = "raised"
    /\ UNCHANGED <<ch_topics, ch_started>>
    /\ UNCHANGED notChief

WriterRaises(exc) ==
    /\ ch_pc = "write"
    /\ StageRaises("writer", exc)

\* publisher.py 66-85, orchestrator.py 65-71
PublisherReturns ==
    /\ ch_pc = "publish"
    /\ ch_log' = AppendAll(ch_log,
           << Progress("Research report published", TRUE),
              Progress("Research report completed and published", TRUE) >>)
    /\ ch_result' = FinalReport
    /\ ch_pc' = "done"
    /\ UNCHANGED <<ch_topics, ch_started, ch_at_failure>>
    /\ UNCHANGED notChief

PublisherRaises(exc) ==
    /\ ch_pc = "publish"
    /\ StageRaises("publisher", exc)

NextChief ==
    \/ RunStart
    \/ \E n \in 0..MaxTopics : InitialResearchReturns(n)
    \/ DepthResearchReturns
    \/ \E exc \in StageErrors : ResearchRaises(exc)
    \/ WriterReturns
    \/ \E exc \in StageErrors : WriterRaises(exc)
    \/ PublisherReturns
    \/ \E exc \in StageErrors : PublisherRaises(exc)

\* ============================================================================
\* Part 12 (SpecInvoke): call_model and _call_model_impl: validation, the
\* provider call, the cost callback and the records written to the state.
\* ============================================================================
MaxModelCalls == 3    \* call_model calls explored

StateArgs == {"none", "logs_only", "full"}
ModelArgs == {"None", "gpt"}
MaxTokensLimit == 16001     \* llm.py 91: max_tokens > 16001
MaxTokens(n) == [given |-> TRUE, val |-> n]
NoMaxTokens == [given |-> FALSE, val |-> 0]
MaxTokensArgs == {NoMaxTokens} \cup {MaxTokens(n) : n \in {16000, 16001, 16002}}
ProviderResponses == {"", "text"}

ValueErrorRaised == "ValueError"
ProviderErrorRaised == "provider_error"
KeyErrorRaised == "KeyError"

\* llm.py 89-93: the validation of _call_model_impl
NoArgs == [model |-> "None", max_tokens |-> NoMaxTokens]

InputsValid(model, max_tokens) ==
    /\ model # "None"
    /\ (~max_tokens.given \/ max_tokens.val <= MaxTokensLimit)

\* a handler that logs whether or not a state was passed
HandlerLogsAlways(logs, state, exc) ==
    Append(logs, Failure(<<"Error calling language model", exc>>))

\* llm.py 66-73: the handler logs only when a state was passed
HandlerLogs(logs, state, exc) ==
    IF state # "none"
    THEN Append(logs, Failure(<<"Error calling language model", exc>>))
    ELSE logs

InitInvoke ==
    /\ mi_pc = "idle"
    /\ mi_state \in StateArgs
    /\ mi_callback \in BOOLEAN
    /\ mi_calls = 0
    /\ mi_logs = <<>>
    /\ mi_llm_logs = <<>>
    /\ mi_mark = 0
    /\ mi_attempts = 0
    /\ mi_costs = 0
    /\ mi_result = NoResult
    /\ mi_args = NoArgs
    /\ mi_responses = 0
    /\ mi_returned = 0

\* llm.py 66-74: the exception is logged when a state was passed and raised
\* again
CallModelRaises(logs, exc) ==
    /\ mi_logs' = HandlerLogs(logs, mi_state, exc)
    /\ mi_result' = Reraised(exc)
    /\ mi_pc' = "raised"

\* llm.py 37-46 and 88-102: the opening record, the validation, the provider
\* is obtained and its response awaited
CallModel(model, max_tokens) ==
    /\ mi_pc \in {"idle", "done", "raised"}
    /\ mi_calls < MaxModelCalls
    /\ mi_calls' = mi_calls + 1
    /\ mi_mark' = Len(mi_logs)
    /\ mi_attempts' = 0
    /\ mi_args' = [model |-> model, max_tokens |-> max_tokens]
    /\ LET opened == IF mi_state # "none"
                     THEN Append(mi_logs, Progress("Calling language model", FALSE))
                     ELSE mi_logs
       IN IF InputsValid(model, max_tokens)
          THEN /\ mi_logs' = opened
               /\ mi_result' = NoResult
               /\ mi_pc' = "provider"
          ELSE CallModelRaises(opened, ValueErrorRaised)
    /\ UNCHANGED <<mi_state, mi_callback, mi_llm_logs, mi_costs, mi_responses,
                   mi_returned>>
    /\ UNCHANGED notInvoke

MaxAttempts == 10    \* llm.py 101: for _ in range(10)
RuntimeErrorRaised == "RuntimeError"

\* a callback that is handed the estimate only when the call returns
RecordCostOnReturn(total, callback, state) ==
    IF callback /\ state # "logs_only" THEN total + 1 ELSE total

\* llm.py 104-106: the estimate of a response is handed to the cost callback
\* as soon as the response has arrived
RecordCost(total, callback, state) == IF callback THEN total + 1 ELSE total

\* a loop that asks the provider again when the response is empty
LoopStepRetriesEmpty(response, attempts) ==
    IF response # "" THEN "return"
    ELSE IF attempts < MaxAttempts THEN "retry" ELSE "exhausted"

\* llm.py 101-118: what the body of the loop does after a response: it
\* returns it, whatever it is, in the first iteration
LoopStep(response, attempts) == "return"

\* llm.py 102-118 and 57-64: the provider responds; the cost is recorded, the
\* llm_logs record written, the response returned and the closing record
\* written
ProviderReturns(response) ==
    /\ mi_pc = "provider"
    /\ mi_attempts' = mi_attempts + 1
    /\ mi_costs' = RecordCost(mi_costs, mi_callback, mi_state)
    /\ mi_responses' = mi_responses + 1
    /\ mi_returned' = IF mi_state # "logs_only" /\ LoopStep(response, mi_attempts + 1) = "return"
                        THEN mi_returned + 1 ELSE mi_returned
    /\ IF mi_state = "logs_only"
       THEN /\ CallModelRaises(mi_logs, KeyErrorRaised)
            /\ UNCHANGED mi_llm_logs
       ELSE /\ mi_llm_logs' = IF mi_state = "full"
                                THEN Append(mi_llm_logs, Progress("Received response", FALSE))
                                ELSE mi_llm_logs
            /\ CASE LoopStep(response, mi_attempts + 1) = "return" ->
                      /\ mi_logs' = IF mi_state = "full"
                                      THEN Append(mi_logs,
                                               Progress("Language model call completed", TRUE))
                                      ELSE mi_logs
                      /\ mi_result' = Content(response)
                      /\ mi_pc' = "done"
                 [] LoopStep(response, mi_attempts + 1) = "retry" ->
                      UNCHANGED <<mi_logs, mi_result, mi_pc>>
                 [] OTHER -> CallModelRaises(mi_logs, RuntimeErrorRaised)
    /\ UNCHANGED <<mi_state, mi_callback, mi_calls, mi_mark, mi_args>>
    /\ UNCHANGED notInvoke

\* llm.py 96-102, 66-74: the provider cannot be obtained or its call raises
ProviderRaises ==
    /\ mi_pc = "provider"
    /\ mi_attempts' = mi_attempts + 1
    /\ CallModelRaises(mi_logs, ProviderErrorRaised)
    /\ UNCHANGED <<mi_state, mi_callback, mi_calls, mi_llm_logs, mi_mark, mi_costs,
                   mi_args, mi_responses, mi_returned>>
    /\ UNCHANGED notInvoke

NextInvoke ==
    \/ \E model \in ModelArgs, max_tokens \in MaxTokensArgs : CallModel(model, max_tokens)
    \/ \E response \in ProviderResponses : ProviderReturns(response)
    \/ ProviderRaises

\* ============================================================================
\* Part 13 (SpecRegistry): the provider registries. from_provider maps a
\* model-provider name to a provider object; get_retrievers maps the configured
\* search-provider names to retriever classes.
\* ============================================================================
MaxRetrievers == 2    \* names in a configured list of retrievers

\* base.py 7-26: the declared set
SUPPORTED_PROVIDERS ==
    {"openai", "anthropic", "azure_openai", "cohere", "google_vertexai",
     "google_genai", "fireworks", "ollama", "together", "mistralai",
     "huggingface", "groq", "bedrock", "dashscope", "xai", "deepseek",
     "litellm", "gigachat"}

\* base.py 39-137: the names of the if/elif chain, in its order
HandledProviders ==
    <<"openai", "anthropic", "azure_openai", "cohere", "google_vertexai",
      "google_genai", "fireworks", "ollama", "together", "mistralai",
      "huggingface", "groq", "bedrock", "dashscope", "xai", "deepseek",
      "litellm", "gigachat">>

\* base.py 81, 126-127: the branches that read os.environ[...]
EnvironProviders == {"ollama", "deepseek"}

ProviderArgs == SUPPORTED_PROVIDERS \cup {"OpenAI", "gemini", ""}

UnsupportedProvider(provider) ==
    [kind |-> "exception", exc |-> <<"ValueError", "Unsupported", provider>>]
ImportErrorRaised == [kind |-> "exception", exc |-> <<"ImportError">>]
EnvironKeyError == [kind |-> "exception", exc |-> <<"KeyError">>]
ProviderObject(provider) == [kind |-> "provider", llm |-> provider]

\* a chain that lost its last branch
FromProviderWithoutLastBranch(provider, installed, environ) ==
    IF \E i \in 1..(Len(HandledProviders) - 1) : HandledProviders[i] = provider
    THEN IF ~installed THEN ImportErrorRaised
         ELSE IF provider \in EnvironProviders /\ ~environ THEN EnvironKeyError
         ELSE ProviderObject(provider)
    ELSE UnsupportedProvider(provider)

\* base.py 37-148: the branch of the name checks its package (_check_pkg,
\* 215-224), reads the environment where it needs it and builds the client;
\* a name no branch handles raises ValueError
FromProvider(provider, installed, environ) ==
    IF \E i \in DOMAIN HandledProviders : HandledProviders[i] = provider
    THEN IF ~installed THEN ImportErrorRaised
         ELSE IF provider \in EnvironProviders /\ ~environ THEN EnvironKeyError
         ELSE ProviderObject(provider)
    ELSE UnsupportedProvider(provider)

\* retriever.py 14-66: the cases of the match statement, <<name, class>>
RetrieverCases ==
    << <<"google", "GoogleSearch">>, <<"searx", "SearxSearch">>,
       <<"searchapi", "SearchApiSearch">>, <<"serpapi", "SerpApiSearch">>,
       <<"serper", "SerperSearch">>, <<"duckduckgo", "Duckduckgo">>,
       <<"bing", "BingSearch">>, <<"arxiv", "ArxivSearch">>,
       <<"tavily", "TavilySearch">>, <<"exa", "ExaSearch">>,
       <<"semantic_scholar", "SemanticScholarSearch">>,
       <<"pubmed_central", "PubMedCentralSearch">>,
       <<"custom", "CustomRetriever">> >>

SupportedRetrievers == {RetrieverCases[i][1] : i \in DOMAIN RetrieverCases}

NoRetriever == "None"

\* retriever.py 4-71: the class of the case, None for every other name
GetRetriever(retriever) ==
    IF \E i \in DOMAIN RetrieverCases : RetrieverCases[i][1] = retriever
    THEN LET i == CHOOSE j \in DOMAIN RetrieverCases :
                      RetrieverCases[j][1] = retriever
         IN  RetrieverCases[i][2]
    ELSE NoRetriever

\* retriever.py 106-109
GetDefaultRetriever == "TavilySearch"

\* Names a caller may configure: two supported ones and a misspelt one.
RetrieverArgs == {"google", "duckduckgo", "gogle"}
\* A list of names (headers["retrievers"] split at its commas, or
\* cfg.retrievers); <<>> stands for a missing or empty value.
RetrieverLists == UNION {[1..n -> RetrieverArgs] : n \in 0..MaxRetrievers}
\* A single name; "" stands for a missing or empty value.
RetrieverSingles == RetrieverArgs \cup {""}

\* retriever.py 86-99: the first source that is set gives the names
ConfiguredNames(headers, cfg) ==
    IF headers.retrievers # <<>> THEN headers.retrievers
    ELSE IF headers.retriever # "" THEN <<headers.retriever>>
    ELSE IF cfg.retrievers # <<>> THEN cfg.retrievers
    ELSE IF cfg.retriever # "" THEN <<cfg.retriever>>
    ELSE <<GetDefaultRetriever>>

\* a registry without a fallback: an unknown name stays None
GetRetrieversNoFallback(headers, cfg) ==
    LET retrievers == ConfiguredNames(headers, cfg)
    IN  [i \in DOMAIN retrievers |-> GetRetriever(retrievers[i])]

\* retriever.py 74-103: get_retriever(r) or get_default_retriever()
GetRetrievers(headers, cfg) ==
    LET retrievers == ConfiguredNames(headers, cfg)
    IN  [i \in DOMAIN retrievers |->
            IF GetRetriever(retrievers[i]) # NoRetriever
            THEN GetRetriever(retrievers[i])
            ELSE GetDefaultRetriever]

InitRegistry ==
    /\ rg_pc = "start"
    /\ rg_headers = [retrievers |-> <<>>, retriever |-> ""]
    /\ rg_cfg = [retrievers |-> <<>>, retriever |-> ""]
    /\ rg_retrievers = <<>>
    /\ rg_provider = ""
    /\ rg_llm = NoResult

\* retriever.py 74-103: one call of get_retrievers
GetRetrieversCall(headers, cfg) ==
    /\ rg_pc = "start"
    /\ rg_pc' = "retrievers"
    /\ rg_headers' = headers
    /\ rg_cfg' = cfg
    /\ rg_retrievers' = GetRetrievers(headers, cfg)
    /\ UNCHANGED <<rg_provider, rg_llm>>
    /\ UNCHANGED notRegistry

\* base.py 37-148: one call of from_provider
FromProviderCall(provider, installed, environ) ==
    /\ rg_pc = "start"
    /\ rg_pc' = "llm"
    /\ rg_provider' = provider
    /\ rg_llm' = FromProvider(provider, installed, environ)
    /\ UNCHANGED <<rg_headers, rg_cfg, rg_retrievers>>
    /\ UNCHANGED notRegistry

NextRegistry ==
    \/ \E hl \in RetrieverLists, hs \in RetrieverSingles,
          cl \in RetrieverLists, cs \in RetrieverSingles :
          GetRetrieversCall([retrievers |-> hl, retriever |-> hs],
                            [retrievers |-> cl, retriever |-> cs])
    \/ \E provider \in ProviderArgs, installed \in BOOLEAN, environ \in BOOLEAN :
          FromProviderCall(provider, installed, environ)

\* Values the variables of the other parts hold while this part runs.
IdleReview ==
    /\ follow_guidelines = FALSE
    /\ reviewer_stub = "any"
    /\ draft_state = TaskInput
    /\ wnode = "none"
    /\ wstatus = "none"
    /\ research_logs = <<>>
    /\ n_reviews = 0
    /\ n_model_reviews = 0
    /\ n_feedback = 0
    /\ n_revisions = 0
    /\ first_draft = None
    /\ reviewed = None
    /\ revise_prompt = [draft |-> None, feedback |-> None]
    /\ revised = None

IdleReport ==
    /\ g_state = FALSE
    /\ g_role = <<>>
    /\ g_content = <<>>
    /\ gpc = "none"
    /\ g_calls = <<>>
    /\ g_outcomes = <<>>
    /\ g_report = <<>>
    /\ g_result = NoResult
    /\ writer_logs = <<>>

IdleCurate ==
    /\ cu_sources = <<>>
    /\ cu_max = 1
    /\ cu_pc = "none"
    /\ cu_outcome = NoCall
    /\ cu_logs = <<>>
    /\ cu_curated = None
    /\ cu_result = NoResult

IdleLedger ==
    /\ costs_set = FALSE
    /\ costs = 0
    /\ log_handler = "absent"
    /\ lg_n = 0
    /\ lg_sum = 0
    /\ lg_neg = FALSE
    /\ lg_last = NoCostCall

IdleConduct ==
    /\ rs_present = FALSE
    /\ rs_visited = {}
    /\ rs_results = <<>>
    /\ rs_idx = 1

IdleImages ==
    /\ im_images = <<>>
    /\ im_k = 1
    /\ im_hash = [u \in ImageUrls |-> NoHash]
    /\ im_current = {}
    /\ im_pc = "none"
    /\ im_selected = <<>>

IdleBrowse ==
    /\ research_sources = <<>>
    /\ research_images = <<>>
    /\ browse_logs = <<>>
    /\ bpc = [c \in BrowseCalls |-> "none"]
    /\ bdocs = [c \in BrowseCalls |-> <<>>]
    /\ bimgs = [c \in BrowseCalls |-> <<>>]
    /\ br_n = 0
    /\ br_returned = {}
    /\ br_selected = {}

IdleContext ==
    /\ cx_pc = "none"
    /\ cx_queries = <<>>
    /\ cx_written = <<>>
    /\ cx_max = DefaultMaxResults
    /\ cx_sim = [q \in SectionQueries |-> [f \in FragmentTexts |-> 0]]
    /\ cx_task = <<>>
    /\ cx_results = <<>>
    /\ cx_out = <<>>
    /\ cx_logs = <<>>

IdlePlan ==
    /\ pl_path = "none"
    /\ pl_report_type = "research_report"
    /\ pl_verbose = FALSE
    /\ pl_pc = "none"
    /\ pl_outline = <<>>
    /\ pl_branches = <<>>
    /\ pl_started = {}
    /\ pl_model_calls = 0
    /\ pl_logs = <<>>
    /\ pl_result = NoResult

IdleEvents ==
    /\ ev_now = 0
    /\ ev_log = <<>>
    /\ ev_pc = [b \in Branches |-> "none"]
    /\ ev_count = [b \in Branches |-> 0]
    /\ ev_entered = [b \in Branches |-> 0]
    /\ ev_pending = {}

IdleChief ==
    /\ ch_pc = "none"
    /\ ch_log = <<>>
    /\ ch_topics = 0
    /\ ch_started = <<>>
    /\ ch_at_failure = <<>>
    /\ ch_result = NoResult

IdleInvoke ==
    /\ mi_pc = "none"
    /\ mi_state = "none"
    /\ mi_callback = FALSE
    /\ mi_calls = 0
    /\ mi_logs = <<>>
    /\ mi_llm_logs = <<>>
    /\ mi_mark = 0
    /\ mi_attempts = 0
    /\ mi_costs = 0
    /\ mi_result = NoResult
    /\ mi_args = NoArgs
    /\ mi_responses = 0
    /\ mi_returned = 0

IdleRegistry ==
    /\ rg_pc = "start"
    /\ rg_headers = [retrievers |-> <<>>, retriever |-> ""]
    /\ rg_cfg = [retrievers |-> <<>>, retriever |-> ""]
    /\ rg_retrievers = <<>>
    /\ rg_provider = ""
    /\ rg_llm = [kind |-> "none"]

IdleResearch ==
    /\ verbose = FALSE
    /\ report_type = "research_report"
    /\ scraped_given = FALSE
    /\ visited_urls = {}
    /\ researcher_logs = <<>>
    /\ cpc = "none"
    /\ sub_queries = <<>>
    /\ gather_exc = NoExc
    /\ cresult = NoResult
    /\ tpc = [t \in Tasks |-> "unused"]
    /\ turls = [t \in Tasks |-> <<>>]
    /\ tidx = [t \in Tasks |-> 1]
    /\ tnew = [t \in Tasks |-> <<>>]
    /\ tout = [t \in Tasks |-> NoResult]
    /\ tentry = [t \in Tasks |-> {}]
    /\ tinter = [t \in Tasks |-> FALSE]
    /\ accepted = [u \in Urls |-> 0]

InitSpecResearch ==
    InitResearch /\ IdleReview /\ IdleReport /\ IdleCurate /\ IdleLedger
        /\ IdleConduct /\ IdleImages /\ IdleBrowse /\ IdleContext /\ IdlePlan /\ IdleEvents /\ IdleChief /\ IdleInvoke /\ IdleRegistry

SpecResearch == InitSpecResearch /\ [][NextResearch]_vars

InitSpecReview ==
    InitReview /\ IdleResearch /\ IdleReport /\ IdleCurate /\ IdleLedger
        /\ IdleConduct /\ IdleImages /\ IdleBrowse /\ IdleContext /\ IdlePlan /\ IdleEvents /\ IdleChief /\ IdleInvoke /\ IdleRegistry

SpecReview == InitSpecReview /\ [][NextReview]_vars

InitSpecReport ==
    InitReport /\ IdleResearch /\ IdleReview /\ IdleCurate /\ IdleLedger
        /\ IdleConduct /\ IdleImages /\ IdleBrowse /\ IdleContext /\ IdlePlan /\ IdleEvents /\ IdleChief /\ IdleInvoke /\ IdleRegistry

SpecReport == InitSpecReport /\ [][NextReport]_vars

InitSpecCurate ==
    InitCurate /\ IdleResearch /\ IdleReview /\ IdleReport /\ IdleLedger
        /\ IdleConduct /\ IdleImages /\ IdleBrowse /\ IdleContext /\ IdlePlan /\ IdleEvents /\ IdleChief /\ IdleInvoke /\ IdleRegistry

SpecCurate == InitSpecCurate /\ [][NextCurate]_vars

InitSpecLedger ==
    InitLedger /\ IdleResearch /\ IdleReview /\ IdleReport /\ IdleCurate
        /\ IdleConduct /\ IdleImages /\ IdleBrowse /\ IdleContext /\ IdlePlan /\ IdleEvents /\ IdleChief /\ IdleInvoke /\ IdleRegistry

SpecLedger == InitSpecLedger /\ [][NextLedger]_vars

InitSpecImages ==
    InitImages /\ IdleResearch /\ IdleReview /\ IdleReport /\ IdleCurate
        /\ IdleLedger /\ IdleConduct /\ IdleBrowse /\ IdleContext /\ IdlePlan /\ IdleEvents /\ IdleChief /\ IdleInvoke /\ IdleRegistry

SpecImages == InitSpecImages /\ [][NextImages]_vars

InitSpecBrowse ==
    InitBrowse /\ IdleResearch /\ IdleReview /\ IdleReport /\ IdleCurate
        /\ IdleLedger /\ IdleConduct /\ IdleImages /\ IdleContext /\ IdlePlan /\ IdleEvents /\ IdleChief /\ IdleInvoke /\ IdleRegistry

SpecBrowse == InitSpecBrowse /\ [][NextBrowse]_vars

InitSpecContext ==
    InitContext /\ IdleReview /\ IdleReport /\ IdleCurate /\ IdleLedger /\ IdleConduct
        /\ IdleImages /\ IdleBrowse /\ IdleResearch /\ IdlePlan /\ IdleEvents /\ IdleChief /\ IdleInvoke /\ IdleRegistry

SpecContext == InitSpecContext /\ [][NextContext]_vars

InitSpecPlan ==
    InitPlan /\ IdleReview /\ IdleReport /\ IdleCurate /\ IdleLedger /\ IdleConduct
        /\ IdleImages /\ IdleBrowse /\ IdleContext /\ IdleResearch /\ IdleEvents /\ IdleChief /\ IdleInvoke /\ IdleRegistry

SpecPlan == InitSpecPlan /\ [][NextPlan]_vars

InitSpecEvents ==
    InitEvents /\ IdleReview /\ IdleReport /\ IdleCurate /\ IdleLedger /\ IdleConduct
        /\ IdleImages /\ IdleBrowse /\ IdleContext /\ IdlePlan /\ IdleResearch /\ IdleChief /\ IdleInvoke /\ IdleRegistry

SpecEvents == InitSpecEvents /\ [][NextEvents]_vars

InitSpecChief ==
    InitChief /\ IdleReview /\ IdleReport /\ IdleCurate /\ IdleLedger /\ IdleConduct
        /\ IdleImages /\ IdleBrowse /\ IdleContext /\ IdlePlan /\ IdleEvents
        /\ IdleResearch /\ IdleInvoke /\ IdleRegistry

SpecChief == InitSpecChief /\ [][NextChief]_vars

InitSpecInvoke ==
    InitInvoke /\ IdleReview /\ IdleReport /\ IdleCurate /\ IdleLedger /\ IdleConduct
        /\ IdleImages /\ IdleBrowse /\ IdleContext /\ IdlePlan /\ IdleEvents
        /\ IdleChief /\ IdleResearch /\ IdleRegistry

SpecInvoke == InitSpecInvoke /\ [][NextInvoke]_vars

InitSpecRegistry ==
    InitRegistry /\ IdleReview /\ IdleReport /\ IdleCurate /\ IdleLedger /\ IdleConduct
        /\ IdleImages /\ IdleBrowse /\ IdleContext /\ IdlePlan /\ IdleEvents
        /\ IdleChief /\ IdleInvoke /\ IdleResearch

SpecRegistry == InitSpecRegistry /\ [][NextRegistry]_vars

\* The workflow runner executes the next node whenever one is scheduled.
SpecReviewFair == SpecReview /\ WF_vars(NextReview)

\* ------------------------------------------------------------ properties
IsPrefix(s, t) == Len(s) <= Len(t) /\ \A i \in DOMAIN s : s[i] = t[i]

NoDuplicates(s) == Cardinality(SeqToSet(s)) = Len(s)

\* C1: a call of _get_new_urls(B) that no other task interleaved with, entered
\* with visited set V, returns exactly the URLs of B that are not in V, each
\* once, and leaves the visited set equal to V union B.
C1_DedupExact ==
    \A t \in Tasks :
        (tpc[t] = "gnu_ret" /\ ~tinter[t]) =>
            /\ SeqToSet(tnew[t]) = SeqToSet(turls[t]) \ tentry[t]
            /\ NoDuplicates(tnew[t])
            /\ visited_urls = tentry[t] \cup SeqToSet(turls[t])

\* an uninterleaved call whose batch repeats a URL, holds a visited URL and a
\* new one
C1_Witness ==
    \E t \in Tasks :
        /\ tpc[t] = "gnu_ret" /\ ~tinter[t]
        /\ tentry[t] # {}
        /\ tnew[t] # <<>>
        /\ Len(tnew[t]) < Len(turls[t])

\* C2: over all calls of _get_new_urls on the same visited set, also when the
\* calls of concurrent tasks interleave at their suspension points, no URL is
\* put into the output of two calls (or twice into one).
C2_AcceptedAtMostOnce == \A u \in Urls : accepted[u] <= 1

\* task b is suspended inside its loop after accepting a URL that task a,
\* which already finished its own loop in between, also had in its batch
C2_Witness ==
    \E a, b \in Tasks :
        /\ a # b
        /\ tpc[b] = "gnu_loop" /\ tidx[b] > 1 /\ tnew[b] # <<>>
        /\ tpc[a] = "gnu_ret" /\ tinter[a]
        /\ tnew[b][1] \in SeqToSet(turls[a])
        /\ tnew[b][1] \notin SeqToSet(tnew[a])
        /\ accepted[tnew[b][1]] = 1

\* C3 (state part): once a task raised, the call never returns a context; what
\* it raises is the exception of a task that failed.
FailFast ==
    /\ cpc = "returned" => \A t \in Tasks : tpc[t] # "failed"
    /\ (\E t \in Tasks : tpc[t] = "failed") /\ cpc \in {"returned", "raised"}
           => /\ cpc = "raised"
              /\ cresult.kind = "exception"
              /\ cresult.task \in Tasks
              /\ tout[cresult.task] = cresult

\* C3 (step part): no step removes a visited URL or a logged event.
NoRollback ==
    /\ visited_urls \subseteq visited_urls'
    /\ IsPrefix(researcher_logs, researcher_logs')

\* C3: fail-fast fan-out. If a sub-query task raises, _get_context_by_web_search
\* raises that task's exception and returns no context even when other tasks
\* completed, and the visited URLs and logged events recorded so far are kept.
C3_FailFast == [](FailFast) /\ [][NoRollback]_vars

\* the call raised although another task returned content, with a URL accepted
C3_Witness ==
    /\ cpc = "raised"
    /\ \E t \in Tasks : tpc[t] = "done" /\ ResultText(tout[t]) # <<>>
    /\ \E t \in Tasks : tpc[t] = "failed"
    /\ \E u \in Urls : accepted[u] = 1

WorkflowStep ==
    \/ wnode' = wnode
    \/ wnode = "researcher" /\ wnode' = "reviewer"
    \/ wnode = "reviewer" /\ wnode' = "END" /\ Get(draft_state', "review") = None
    \/ wnode = "reviewer" /\ wnode' = "reviser" /\ Get(draft_state', "review") # None
    \/ wnode = "reviser" /\ wnode' = "reviewer"

\* the reviser runs only right after a review that returned feedback
ReviserAfterFeedback ==
    n_revisions' # n_revisions =>
        /\ wnode = "reviser"
        /\ Get(draft_state, "review") # None
        /\ n_feedback = n_revisions + 1

C6_FeedbackAndDraftHandedOn ==
    /\ (n_revisions > 0 /\ wnode = "reviewer" /\ wstatus = "running")
           => revise_prompt.feedback = Get(draft_state, "review")
    /\ (n_revisions > 0 /\ n_reviews > n_revisions) => reviewed = revised

\* the second half of C6 alone: the draft under review is the revised draft
DraftHandedOn ==
    (n_revisions > 0 /\ n_reviews > n_revisions) => reviewed = revised

IsErrorEvent(e) == "error" \in DOMAIN e /\ e.error

BothCallsFailed ==
    Len(g_outcomes) = 2 /\ ~g_outcomes[1].ok /\ ~g_outcomes[2].ok

C11_CurationFailOpen ==
    (cu_pc = "done" /\ cu_outcome = Unparsable) =>
        /\ cu_result = Returned(cu_sources)
        /\ cu_logs # <<>>
        /\ IsErrorEvent(cu_logs[Len(cu_logs)])

C11_Witness ==
    /\ cu_pc = "done" /\ cu_outcome = Unparsable
    /\ Len(cu_sources) = 2 /\ cu_sources[1] # cu_sources[2]
    /\ cu_result = Returned(cu_sources)

\* C12: whenever the model output parses, curate_sources returns at most
\* max_results sources.
C12_AtMostMaxResults ==
    (cu_pc = "done" /\ Parses(cu_outcome)) => Len(cu_result.val) <= cu_max

\* C13: a configuration error or a cost-validation error raised during the
\* model call is surfaced: the call ends with that error, not with the
\* fail-open result.
C13_ConfigAndCostErrorsSurface ==
    (cu_pc = "done" /\ cu_outcome.kind = "raised"
                   /\ cu_outcome.error \in {"config_error", "cost_error"}) =>
        cu_result = [kind |-> "raised", error |-> cu_outcome.error]
\* C14: starting from a total of 0, after any number of add_costs calls the
\* total equals the sum of the valid amounts passed, in every order and for
\* every sequence of amounts.
C14_TotalIsSum == costs_set => costs = lg_sum

C14_Witness ==
    /\ lg_n = MaxCalls
    /\ costs = 3
    /\ lg_last.kind = "call" /\ lg_last.result = "ok" /\ lg_last.amount.val = 2

\* an add_costs call that was handed a string or None
RejectedNonNumeric ==
    /\ lg_n' = lg_n + 1
    /\ lg_last'.amount.kind \in {"str", "none"}

\* C15: add_costs with a non-numeric amount (a string, None) ends with a
\* ValueError and leaves the total and the rest of the state as they were.
C15_NonNumericRejected ==
    [][RejectedNonNumeric =>
          /\ lg_last'.result = "ValueError"
          /\ UNCHANGED <<costs_set, costs, log_handler, lg_sum, lg_neg>>]_vars

C15_Witness ==
    /\ lg_last.kind = "call" /\ lg_last.amount.kind = "str"
    /\ lg_last.result = "ValueError"
    /\ costs > 0

\* a step in which add_costs accepts a negative amount
AcceptsNegative ==
    /\ lg_n' = lg_n + 1
    /\ lg_last'.result # "ValueError"
    /\ lg_last'.amount.val < 0

C17_VisitedOnlyGrows ==
    [][/\ visited_urls \subseteq visited_urls'
       /\ rs_visited \subseteq rs_visited']_vars

\* a task failed at the scrape stage after both URLs had been marked visited
C17_Witness ==
    /\ visited_urls = Urls
    /\ \E t \in Tasks : tout[t] = Raised("scrape", t)
    /\ \E t \in Tasks : tpc[t] = "done"
\* C18: for every candidate list and every k >= 1, select_top_images returns
\* at most k entries, no two of them with the same content hash, and none
\* whose URL was already in the state's image list.
C18_SelectionBound ==
    im_pc = "done" =>
        /\ Len(im_selected) <= im_k
        /\ \A i, j \in DOMAIN im_selected :
               i # j => im_hash[im_selected[i]] # im_hash[im_selected[j]]
        /\ \A i \in DOMAIN im_selected : im_selected[i] \notin im_current

\* two candidates share a hash, one candidate is already in the state, and
\* the call still selected something
C18_Witness ==
    /\ im_pc = "done"
    /\ im_hash["i1"] = im_hash["i2"]
    /\ \E i, j \in DOMAIN im_images :
           im_images[i].url = "i1" /\ im_images[j].url = "i2"
    /\ im_current = {}
    /\ Len(im_selected) = im_k /\ im_k = 2

\* the case C19 speaks of: all hashes present and different, nothing in the
\* state's image list
DistinctFreshImages ==
    /\ im_current = {}
    /\ \A i \in DOMAIN im_images : im_hash[im_images[i].url] # NoHash
    /\ \A i, j \in DOMAIN im_images :
           i # j => im_hash[im_images[i].url] # im_hash[im_images[j].url]

ScoreOf(u) == im_images[CHOOSE i \in DOMAIN im_images : im_images[i].url = u].score

FirstN(s, n) == [i \in 1..(IF n < Len(s) THEN n ELSE Len(s)) |-> s[i]]

ImageUrlsOf(s) == [i \in DOMAIN s |-> s[i].url]

C20_SourcesAndImagesAccumulate ==
    /\ br_returned \subseteq SeqToSet(research_sources)
    /\ br_selected \subseteq SeqToSet(research_images)

\* C21: in threshold mode every fragment returned for written contents has
\* similarity >= t (0.5) to one of the queries it was retrieved for; a fragment
\* below t for every query is never in the output.
C21_OutputAboveThreshold ==
    cx_pc = "done" =>
        \A i \in DOMAIN cx_out :
            \E j \in DOMAIN cx_queries :
                cx_sim[cx_queries[j]][cx_out[i]] >= DefaultSimilarityThreshold

\* the call returned fragments and left out one that is below t for every query
C21_Witness ==
    /\ cx_pc = "done"
    /\ cx_out # <<>>
    /\ \E f \in SeqToSet(cx_written) :
          /\ f \notin SeqToSet(cx_out)
          /\ \A j \in DOMAIN cx_queries :
                cx_sim[cx_queries[j]][f] < DefaultSimilarityThreshold

\* C22: the per-query results are merged by set union before truncation: the
\* result has no duplicate text, at most max_results entries, every entry was
\* returned for one of the queries, and a union of at most max_results
\* elements is returned whole.
C22_UnionThenTruncate ==
    cx_pc = "done" =>
        /\ NoDuplicates(cx_out)
        /\ Len(cx_out) <= cx_max
        /\ \A i \in DOMAIN cx_out : \E j \in DOMAIN cx_results : cx_out[i] \in cx_results[j]
        /\ Cardinality(UNION {cx_results[j] : j \in DOMAIN cx_results}) <= cx_max
              => SeqToSet(cx_out) = UNION {cx_results[j] : j \in DOMAIN cx_results}

\* two queries returned different fragments, one fragment was returned by a
\* title only, and the whole union came back
C22_Witness ==
    /\ cx_pc = "done"
    /\ Len(cx_queries) >= 2
    /\ \E f \in SeqToSet(cx_out) : f \notin cx_results[1]
    /\ \E f \in SeqToSet(cx_out) : f \in cx_results[1]
    /\ Len(cx_out) = Cardinality(UNION {cx_results[j] : j \in DOMAIN cx_results})

\* C23: the sub-queries fanned out are the planner's output plus the original
\* query when the report type is not a sub-topic report, and the planner's
\* output alone when it is, on the web-search path and the vector-store path.
C23_OriginalQueryAppended ==
    pl_pc = "gather" =>
        pl_branches = IF pl_report_type = "subtopic_report"
                        THEN pl_outline
                        ELSE pl_outline \o <<Query>>

\* a sub-topic report on the vector-store path fanned out a non-empty outline
C23_Witness ==
    /\ pl_pc = "gather"
    /\ pl_path = "vectorstore"
    /\ pl_report_type = "subtopic_report"
    /\ pl_outline # <<>>
    /\ pl_started = DOMAIN pl_branches

\* C24: a task's sub-queries are deduplicated: the fan-out never starts two
\* branches for the same sub-query string.
C24_NoDuplicateBranches ==
    \A i, j \in pl_started : pl_branches[i] = pl_branches[j] => i = j

\* C25: the planner calls the model once per plan and does not retry; when
\* the planning call fails the research call raises the same exception and
\* no sub-query branch is started.
C25_PlanFailurePropagates ==
    /\ pl_model_calls <= 1
    /\ (pl_pc = "raised" /\ pl_model_calls = 1) =>
           /\ pl_result = [kind |-> "exception", exc |-> PlanningError]
           /\ pl_branches = <<>>
           /\ pl_started = {}

\* the planning call failed and the research call has raised
C25_Witness ==
    /\ pl_pc = "raised"
    /\ pl_model_calls = 1
    /\ pl_result = [kind |-> "exception", exc |-> PlanningError]

\* C26: the event log is append-only and timestamp-ordered in every reachable
\* state: existing entries are never removed, reordered or modified, and
\* timestamps are non-decreasing in list order, also when several branches
\* log concurrently.
TimestampOrdered(log) ==
    \A i, j \in DOMAIN log : i < j => log[i].timestamp <= log[j].timestamp

C26_AppendOnlyAndOrdered ==
    /\ [](TimestampOrdered(ev_log))
    /\ [][IsPrefix(ev_log, ev_log')]_vars

\* both branches have logged, interleaved, at different clock readings
C26_Witness ==
    /\ Len(ev_log) >= 3
    /\ ev_log[1].message[1] # ev_log[2].message[1]
    /\ ev_log[2].message[1] # ev_log[3].message[1]
    /\ ev_log[1].timestamp < ev_log[3].timestamp

\* C28: the pipeline never blocks on the event sink: after a stage has logged
\* an event it can take its next step while the sink's handling of that event
\* has not completed.
C28_NeverBlocksOnSink ==
    \A b \in Branches :
        (\E i \in ev_pending : ev_log[i].message[1] = b) => ENABLED StageStep(b)

\* C27: every record a pipeline stage appends to the event log carries all
\* four fields message, done, error and timestamp.
EventFields == {"message", "done", "error", "timestamp"}

C27_RecordsCarryAllFields ==
    \A i \in DOMAIN browse_logs : EventFields \subseteq DOMAIN browse_logs[i]

\* C30: a fatal error ends the task with the partial event log preserved: when
\* a stage called by ChiefEditorAgent.run raises, every event logged before
\* the failure is still in the log in its original order, an event with
\* error=true and done=true is appended after them, no later stage is
\* started, and the exception propagates to the caller.
StagesAfter(stage) ==
    CASE stage = "research" -> {"writer", "publisher"}
      [] stage = "writer" -> {"publisher"}
      [] OTHER -> {}

C30_FatalErrorKeepsLog ==
    ch_pc = "raised" =>
        /\ IsPrefix(ch_at_failure, ch_log)
        /\ Len(ch_log) > Len(ch_at_failure)
        /\ \A i \in (Len(ch_at_failure) + 1)..Len(ch_log) :
              IsErrorEvent(ch_log[i]) /\ ch_log[i].done
        /\ ch_log[Len(ch_log)].message[1] = "Error during research"
        /\ SeqToSet(ch_started) \cap StagesAfter(ch_started[Len(ch_started)]) = {}
        /\ ch_result.kind = "exception"
        /\ ch_result.exc = ch_log[Len(ch_log)].message[2]

\* the writer stage raised after the research stage had logged its events
C30_Witness ==
    /\ ch_pc = "raised"
    /\ ch_started = <<"research", "writer">>
    /\ Len(ch_at_failure) >= 5

\* C29: whenever a retrieval, scrape or model error propagates out of a
\* pipeline stage, an event with error=true has been appended to the event
\* log before the exception leaves that stage.
C29_ErrorLoggedBeforePropagating ==
    mi_pc = "raised" =>
        \E i \in (mi_mark + 1)..Len(mi_logs) : IsErrorEvent(mi_logs[i])

\* C31: every report the orchestrator returns was produced after the
\* review-revise loop accepted its draft: run sequences research, drafting and
\* the review-revise loop (the editor's workflow) and publishes only an
\* accepted draft.
C31_PublishedAfterReview ==
    ch_pc = "done" =>
        \E i, j \in DOMAIN ch_started :
            /\ ch_started[i] = "editor"
            /\ ch_started[j] = "publisher"
            /\ i < j

RejectedByValidation ==
    /\ mi_pc = "raised"
    /\ mi_result.exc = ValueErrorRaised
    /\ mi_attempts = 0

C38_ValidationBeforeProvider ==
    mi_calls > 0 =>
        IF \/ mi_args.model = "None"
           \/ (mi_args.max_tokens.given /\ mi_args.max_tokens.val > 16000)
        THEN RejectedByValidation
        ELSE ~RejectedByValidation

C33_UnsupportedExactlyOutsideDeclaredSet ==
    /\ SUPPORTED_PROVIDERS = {HandledProviders[i] : i \in DOMAIN HandledProviders}
    /\ rg_pc = "llm" =>
          /\ (rg_llm = UnsupportedProvider(rg_provider))
                 <=> (rg_provider \notin SUPPORTED_PROVIDERS)
          /\ rg_provider \notin SUPPORTED_PROVIDERS => rg_llm.kind # "provider"

C33_Witness ==
    /\ rg_pc = "llm"
    /\ rg_provider = "OpenAI"
    /\ rg_llm = UnsupportedProvider("OpenAI")

\* C34: get_retrievers never returns an adapter in the place of a configured
\* name that is not a supported retriever.
C34_NoAdapterForUnsupportedName ==
    rg_pc = "retrievers" =>
        \A i \in DOMAIN rg_retrievers :
            ConfiguredNames(rg_headers, rg_cfg)[i] \in RetrieverArgs
                /\ ConfiguredNames(rg_headers, rg_cfg)[i] \notin SupportedRetrievers
            => rg_retrievers[i] = NoRetriever

\* C35: a reviewer response that carries revision notes always leads to the
\* reviser with those notes as the review, whether or not the text of the
\* notes contains the substring "None".
C35_NotesAlwaysLeadToRevising ==
    [][\A response \in Responses :
          (/\ ReviewerNode(response)
           /\ ShouldReview(follow_guidelines)
           /\ response.id # "r0")
          => (/\ wnode' = "reviser"
              /\ Get(draft_state', "review") = response)]_vars

\* C36: when no branch raises, _get_context_by_web_search has one branch per
\* sub-query, returns only after every branch has finished, and returns the
\* non-empty branch contexts joined in sub-query order, or an empty list when
\* no branch found content.
C36_OneBatchJoinedInQueryOrder ==
    cpc = "returned" /\ cresult.kind \in {"content", "list"} =>
        LET RECURSIVE SpaceJoined(_)
            SpaceJoined(s) ==
                IF s = <<>> THEN <<>>
                ELSE IF Len(s) = 1 THEN s[1]
                ELSE s[1] \o <<" ">> \o SpaceJoined(Tail(s))
            found == SelectSeq([i \in 1..Len(sub_queries) |->
                                   IF tout[i].kind = "content" THEN tout[i].val
                                   ELSE <<>>],
                               LAMBDA c : c # <<>>)
        IN  /\ \A t \in Tasks : (tpc[t] # "unused") <=> (t <= Len(sub_queries))
            /\ \A t \in 1..Len(sub_queries) : tpc[t] = "done"
            /\ cresult = IF found = <<>> THEN EmptyList
                         ELSE Content(SpaceJoined(found))

C36_Witness ==
    /\ cpc = "returned"
    /\ Len(sub_queries) >= 2
    /\ cresult = Content(<< <<"ctx", 1>>, " ", <<"ctx", 2>> >>)

\* C37: a URL is marked visited before it is scraped. The URLs a call of
\* _get_new_urls handed to the scraper are in the visited set and stay there
\* through the scrape step, also when the scrape fails, and a URL that is
\* visited never enters the output of a later call.
C37_VisitedBeforeScrape ==
    [][\A t \in Tasks :
          /\ tpc[t] = "browse" =>
                 /\ SeqToSet(tnew[t]) \subseteq visited_urls
                 /\ SeqToSet(tnew[t]) \subseteq visited_urls'
          /\ \A u \in visited_urls :
                 u \in SeqToSet(tnew'[t]) => u \in SeqToSet(tnew[t])]_vars

\* one task failed at the scrape stage; a call of the other task that began
\* afterwards with only visited URLs in its batch returns none of them
C37_Witness ==
    \E a, b \in Tasks :
        /\ a # b
        /\ tout[a] = Raised("scrape", a)
        /\ tpc[b] = "gnu_ret"
        /\ turls[b] # <<>>
        /\ SeqToSet(turls[b]) \subseteq tentry[b]
        /\ tnew[b] = <<>>

\* C40: on a freshly constructed skill, whose research_state is what
\* __init__ left, conduct_research initializes the research state before it
\* searches, so that with collaborators that all succeed the first call
\* returns and raises nothing.
C40_FreshSkillCompletes ==
    ~rs_present /\ cpc \in {"returned", "raised"}
                /\ cresult \in {[kind |-> "conducted"], Raised("conduct", 0)}
        => /\ cpc = "returned"
           /\ rs_visited = SeqToSet(rs_results)
====
